---- MODULE Spec2Model ----
(***************************************************************************)
(* Model of the npm-audit security scanner for Bun:                        *)
(*   scanner.scan  ->  NpmAuditClient.queryVulnerabilities                 *)
(*                 ->  AdvisoryProcessor.processAdvisories                 *)
(* One scan is a sequential asynchronous computation; the model has one    *)
(* action per stretch of synchronous code between two awaits.              *)
(***************************************************************************)
EXTENDS Integers, Sequences, FiniteSets, TLC

(***************************************************************************)
(* Bounds of the model.                                                    *)
(***************************************************************************)
\* longest package list handed to scan
MaxPackages == 3
\* longest advisory list handed to processAdvisories
MaxAdvisories == 2
\* largest per-request maximum explored (the code ships 1000)
MaxBatchSize == 2
\* the scan invocations that can be in progress together
MaxScans == 2

(***************************************************************************)
(* Program constants.                                                      *)
(***************************************************************************)
\* NPM_AUDIT_API.MAX_RETRY_ATTEMPTS
MAX_RETRY_ATTEMPTS == 2
\* SECURITY.MAX_DESCRIPTION_LENGTH
MAX_DESCRIPTION_LENGTH == 200
\* SECURITY.CVSS_FATAL_THRESHOLD (7.0), in tenths
CVSS_FATAL_THRESHOLD == 70

(***************************************************************************)
(* Values.                                                                 *)
(***************************************************************************)
\* a property that is absent from a JavaScript object
Undefined == "<undefined>"

\* own properties every object literal inherits from Object.prototype
ObjectPrototypeKeys ==
    { "__proto__", "constructor", "hasOwnProperty", "isPrototypeOf",
      "propertyIsEnumerable", "toLocaleString", "toString", "valueOf" }

Pkg(n, v, r) == [name |-> n, version |-> v, requestedRange |-> r]

\* the package references a scan is called with (Bun.Security.Package)
PackageRefs ==
    { Pkg("a", "1.0.0", "^1.0.0"),
      Pkg("a", "1.0.0", "*"),
      Pkg("a", "2.0.0", "^2.0.0"),
      Pkg("@s/b", "1.0.0", "^1.0.0"),
      Pkg("@s/b", "2.0.0", "^2.0.0"),
      Pkg("constructor", "1.0.0", "^1.0.0") }

RECURSIVE SeqsUpTo(_, _)
SeqsUpTo(S, n) ==
    IF n = 0 THEN { <<>> }
    ELSE LET shorter == SeqsUpTo(S, n - 1)
         IN  shorter \cup { Append(s, x) : s \in { t \in shorter : Len(t) = n - 1 }, x \in S }

PackageLists == SeqsUpTo(PackageRefs, MaxPackages)

\* a value of JavaScript null
Null == "<null>"

\* no cvss field
NoCvss == [present |-> FALSE, score |-> 0]
\* cvss: { score }, the score in tenths
Cvss(tenths) == [present |-> TRUE, score |-> tenths]

Adv(i, k, n, m, s, r) ==
    [ id |-> i, idIsNumber |-> k, name |-> n, module_name |-> m, severity |-> s,
      vulnerable_versions |-> r, title |-> "title " \o i, url |-> "https://x/" \o i,
      overview |-> Undefined, recommendation |-> Undefined, cvss |-> NoCvss ]

\* what the registry knows, in the key order of its response object
AdvisoryDb ==
    << Adv("1065", TRUE, "a", Undefined, "high", "<2.0.0"),
       Adv("GHSA-1", FALSE, "a", Undefined, "low", "*"),
       Adv("GHSA-2", FALSE, Undefined, "@s/b", "critical", ">=2.0.0"),
       Adv("GHSA-3", FALSE, "constructor", Undefined, "moderate", "*") >>

\* the packages and advisories processAdvisories is called with
ProcessorPackages ==
    { Pkg("p", "1.0.0", "^1.0.0"), Pkg("p", "2.0.0", "*"), Pkg("q", "1.0.0", "^1.0.0") }

ProcessorAdvisories ==
    { Adv("1", TRUE, "p", Undefined, "high", "*"),
      Adv("2", TRUE, "p", Undefined, "low", "<2.0.0"),
      Adv("3", FALSE, Undefined, "p", "critical", "*"),
      Adv("4", FALSE, "q", "p", "moderate", "*"),
      Adv("5", FALSE, Undefined, Undefined, "high", "*"),
      Adv("6", FALSE, "", "p", "info", "*"),
      Adv("7", FALSE, "p", Undefined, "high", "invalid-range") }

Range(s) == { s[i] : i \in 1..Len(s) }

RECURSIVE Flatten(_)
Flatten(ss) == IF ss = <<>> THEN <<>> ELSE Head(ss) \o Flatten(Tail(ss))

Min(a, b) == IF a < b THEN a ELSE b

(***************************************************************************)
(* Bun.semver.satisfies(version, range), the runtime's range matcher, for  *)
(* versions major.minor.patch and ranges made of the comparators           *)
(* < <= > >= = and *, joined by spaces within a clause and by || between   *)
(* clauses. Pre-release tags, ^ and ~ are outside the model.               *)
(***************************************************************************)
Digits == << "0", "1", "2", "3", "4", "5", "6", "7", "8", "9" >>

\* the value of a decimal digit, -1 for any other character
DigitValue(c) ==
    IF \E d \in 1..Len(Digits) : Digits[d] = c
    THEN (CHOOSE d \in 1..Len(Digits) : Digits[d] = c) - 1
    ELSE -1

RECURSIVE ParseDigits(_, _)
ParseDigits(s, acc) ==
    IF s = "" THEN acc
    ELSE IF DigitValue(Head(s)) < 0 THEN -1
    ELSE ParseDigits(Tail(s), acc * 10 + DigitValue(Head(s)))

\* a decimal numeral as a number, -1 when s is not a numeral
ParseNumeral(s) == IF s = "" THEN -1 ELSE ParseDigits(s, 0)

StartsWith(s, prefix) ==
    Len(s) >= Len(prefix) /\ SubSeq(s, 1, Len(prefix)) = prefix

\* s.split(sep); cur is the piece being read
RECURSIVE Split(_, _, _)
Split(s, sep, cur) ==
    IF s = "" THEN << cur >>
    ELSE IF StartsWith(s, sep)
    THEN << cur >> \o Split(SubSeq(s, Len(sep) + 1, Len(s)), sep, "")
    ELSE Split(Tail(s), sep, cur \o Head(s))

\* "major.minor.patch" as << major, minor, patch >>
ParseVersion(s) ==
    LET parts == Split(s, ".", "")
    IN  IF Len(parts) = 3 /\ \A i \in 1..3 : ParseNumeral(parts[i]) >= 0
        THEN [ok |-> TRUE, v |-> [i \in 1..3 |-> ParseNumeral(parts[i])]]
        ELSE [ok |-> FALSE, v |-> << 0, 0, 0 >>]

\* -1, 0, 1 as a is lower than, equal to, higher than b
CompareVersions(a, b) ==
    LET differ == { i \in 1..3 : a[i] # b[i] }
        first == CHOOSE i \in differ : \A j \in differ : i <= j
    IN  IF differ = {} THEN 0
        ELSE IF a[first] < b[first] THEN -1 ELSE 1

\* the operators, the two-character ones first
ComparatorOperators == << ">=", "<=", ">", "<", "=" >>

\* one comparator: * or [operator]version, a bare version meaning equality
ParseComparator(token) ==
    IF token = "*" THEN [ok |-> TRUE, op |-> "*", v |-> << 0, 0, 0 >>]
    ELSE LET found == { i \in 1..Len(ComparatorOperators) :
                          StartsWith(token, ComparatorOperators[i]) }
             op == IF found = {} THEN ""
                   ELSE ComparatorOperators[CHOOSE i \in found : \A j \in found : i <= j]
             version == ParseVersion(SubSeq(token, Len(op) + 1, Len(token)))
         IN  [ok |-> version.ok, op |-> IF op = "" THEN "=" ELSE op, v |-> version.v]

ComparatorHolds(comparator, v) ==
    LET c == CompareVersions(v, comparator.v)
    IN  CASE comparator.op = "*" -> TRUE
          [] comparator.op = "<" -> c < 0
          [] comparator.op = "<=" -> c <= 0
          [] comparator.op = ">" -> c > 0
          [] comparator.op = ">=" -> c >= 0
          [] OTHER -> c = 0

\* the comparators of one clause
ParseClause(clause) ==
    LET tokens == SelectSeq(Split(clause, " ", ""), LAMBDA t : t # "")
    IN  [i \in 1..Len(tokens) |-> ParseComparator(tokens[i])]

\* the clauses of a range
ParseRange(range) ==
    LET clauses == Split(range, "||", "")
    IN  [i \in 1..Len(clauses) |-> ParseClause(clauses[i])]

RangeIsValid(parsed) ==
    \A i \in 1..Len(parsed) :
        /\ Len(parsed[i]) > 0
        /\ \A j \in 1..Len(parsed[i]) : parsed[i][j].ok

\* "true", "false", or "throws" when the version or the range does not parse
Satisfies(version, range) ==
    LET v == ParseVersion(version)
        parsed == ParseRange(range)
    IN  IF ~v.ok \/ ~RangeIsValid(parsed) THEN "throws"
        ELSE IF \E i \in 1..Len(parsed) :
                   \A j \in 1..Len(parsed[i]) : ComparatorHolds(parsed[i][j], v.v)
        THEN "true"
        ELSE "false"

\* the versions of the packages and the ranges of the advisories above
KnownVersions == { pkg.version : pkg \in PackageRefs \cup ProcessorPackages }
KnownRanges ==
    { a.vulnerable_versions : a \in Range(AdvisoryDb) \cup ProcessorAdvisories }

\* Satisfies on them, tabulated once (@@ makes the table an explicit function)
SatisfiesTable ==
    [p \in KnownVersions \X KnownRanges |-> Satisfies(p[1], p[2])] @@ << >>

SemverSatisfies(version, range) ==
    IF version \in KnownVersions /\ range \in KnownRanges
    THEN SatisfiesTable[<< version, range >>]
    ELSE Satisfies(version, range)

(***************************************************************************)
(* NpmAuditClient: pure helpers.                                           *)
(***************************************************************************)
\* mutant: the key forgets the version
PackageKeyByName(pkg) == pkg.name

\* the Map key of deduplicatePackages: `${pkg.name}@${pkg.version}`
PackageKey(pkg) == pkg.name \o "@" \o pkg.version

\* one iteration of the loop of deduplicatePackages over the insertion-ordered Map
DedupStep(map, pkg) ==
    IF PackageKey(pkg) \in Range(map.keys)
    THEN map
    ELSE [keys |-> Append(map.keys, PackageKey(pkg)), values |-> Append(map.values, pkg)]

RECURSIVE DedupLoop(_, _)
DedupLoop(map, pkgs) ==
    IF pkgs = <<>> THEN map ELSE DedupLoop(DedupStep(map, Head(pkgs)), Tail(pkgs))

deduplicatePackages(pkgs) == DedupLoop([keys |-> <<>>, values |-> <<>>], pkgs).values

\* payload[pkg.name] on the object literal {}: an own property, an inherited one,
\* or undefined
PayloadLookup(map, name) ==
    IF name \in DOMAIN map THEN "array"
    ELSE IF name \in ObjectPrototypeKeys THEN "inherited"
    ELSE "undefined"

\* one iteration of the loop of buildRequestPayload; threw = a TypeError left the loop
PayloadStep(acc, pkg) ==
    IF acc.threw THEN acc
    ELSE CASE PayloadLookup(acc.map, pkg.name) = "undefined" ->
                [acc EXCEPT !.map = (pkg.name :> <<pkg.version>>) @@ acc.map]
           [] PayloadLookup(acc.map, pkg.name) = "array" ->
                IF pkg.version \in Range(acc.map[pkg.name])
                THEN acc
                ELSE [acc EXCEPT !.map[pkg.name] = Append(@, pkg.version)]
           [] OTHER ->
                \* truthy inherited value without an includes method
                [acc EXCEPT !.threw = TRUE]

RECURSIVE PayloadLoop(_, _)
PayloadLoop(acc, pkgs) ==
    IF pkgs = <<>> THEN acc ELSE PayloadLoop(PayloadStep(acc, Head(pkgs)), Tail(pkgs))

\* [threw, map]: map is the request object, package name -> list of versions
buildRequestPayload(pkgs) == PayloadLoop([threw |-> FALSE, map |-> <<>>], pkgs)

\* packages.slice(i, i + batchSize), i counted from 0
Slice(pkgs, i, batchSize) == SubSeq(pkgs, i + 1, Min(i + batchSize, Len(pkgs)))

(***************************************************************************)
(* The registry: answers a request with the advisories that apply to the   *)
(* requested versions of the requested names.                              *)
(***************************************************************************)
SubjectOf(advisory) ==
    IF advisory.name # Undefined THEN advisory.name ELSE advisory.module_name

AppliesTo(advisory, map) ==
    /\ SubjectOf(advisory) \in DOMAIN map
    /\ \E v \in Range(map[SubjectOf(advisory)]) :
          SemverSatisfies(v, advisory.vulnerable_versions) = "true"

RegistryAnswer(map) == SelectSeq(AdvisoryDb, LAMBDA a : AppliesTo(a, map))

\* the bodies a 2xx response can carry
BodyKinds == { "direct", "wrapped", "malformed", "not-json" }

(***************************************************************************)
(* JSON values, as response.json() hands them to the schemas.              *)
(***************************************************************************)
JValue(t, str, keys, vals) == [t |-> t, s |-> str, keys |-> keys, vals |-> vals]

JUndefined == JValue("undefined", "", <<>>, <<>>)
JNull == JValue("null", "", <<>>, <<>>)
JString(str) == JValue("string", str, <<>>, <<>>)
\* a number, written as its decimal numeral
JNumber(str) == JValue("number", str, <<>>, <<>>)
JBoolean(str) == JValue("boolean", str, <<>>, <<>>)
JArray(vals) == JValue("array", "", <<>>, vals)
\* an object: its own keys in enumeration order and their values
JObject(keys, vals) == JValue("object", "", keys, vals)

\* obj[key]
Get(obj, key) ==
    LET found == { i \in 1..Len(obj.keys) : obj.keys[i] = key }
    IN  IF found = {} THEN JUndefined ELSE obj.vals[CHOOSE i \in found : TRUE]

\* the numerals of the digits
Numerals == << "0", "1", "2", "3", "4", "5", "6", "7", "8", "9" >>

\* a score in tenths as the numeral units.tenth; a CVSS score is 0.0 to 10.0
Tenths(n) ==
    (IF n >= 100 THEN "10" ELSE Numerals[(n \div 10) + 1]) \o "." \o Numerals[(n % 10) + 1]

\* the numeral units.tenth as a score in tenths
FromTenths(str) ==
    CHOOSE n \in 0..100 : Tenths(n) = str

\* the advisory as the registry serialises it
AdvisoryJson(a) ==
    LET field(k, v) == IF v = Undefined THEN <<>> ELSE << << k, JString(v) >> >>
        fields == << << "id", IF a.idIsNumber THEN JNumber(a.id) ELSE JString(a.id) >> >>
                  \o field("title", a.title)
                  \o field("name", a.name)
                  \o field("module_name", a.module_name)
                  \o field("severity", a.severity)
                  \o field("vulnerable_versions", a.vulnerable_versions)
                  \o field("url", a.url)
                  \o field("overview", a.overview)
                  \o field("recommendation", a.recommendation)
                  \o (IF a.cvss.present
                      THEN << << "cvss", JObject(<< "score" >>,
                                                 << JNumber(Tenths(a.cvss.score)) >>) >> >>
                      ELSE <<>>)
    IN  JObject([i \in 1..Len(fields) |-> fields[i][1]],
                [i \in 1..Len(fields) |-> fields[i][2]])

\* identifier -> advisory
AdvisoryMapping(advs) ==
    JObject([i \in 1..Len(advs) |-> advs[i].id], [i \in 1..Len(advs) |-> AdvisoryJson(advs[i])])

AuditMetadata == JObject(<< "vulnerabilities" >>, << JNumber("0") >>)

\* a body that carries the advisories answer: shape (a), shape (b), or an
\* object of neither shape
ResponseBody(kind, answer) ==
    CASE kind = "direct" -> AdvisoryMapping(answer)
      [] kind = "wrapped" ->
            JObject(<< "advisories", "metadata" >>,
                    << AdvisoryMapping(answer), AuditMetadata >>)
      [] OTHER -> AdvisoryMapping(<< [AdvisoryDb[1] EXCEPT !.severity = "unknown"] >>)

\* the decoded body of the response to the request map
ResponseData(kind, map) == ResponseBody(kind, RegistryAnswer(map))

(***************************************************************************)
(* schema.ts                                                               *)
(***************************************************************************)
Severities == { "critical", "high", "moderate", "low", "info" }

ZString(v) == v.t = "string"
ZNumber(v) == v.t = "number"
ZBoolean(v) == v.t = "boolean"
ZStringArray(v) == v.t = "array" /\ \A i \in 1..Len(v.vals) : ZString(v.vals[i])
\* .optional(): the property is absent
ZAbsent(v) == v.t = "undefined"

ZCwe(v) == ZString(v) \/ ZStringArray(v)

ZCvss(v) ==
    /\ v.t = "object"
    /\ ZNumber(Get(v, "score"))
    /\ ZAbsent(Get(v, "vectorString")) \/ ZString(Get(v, "vectorString"))

ZFinding(v) ==
    /\ v.t = "object"
    /\ ZString(Get(v, "version"))
    /\ ZStringArray(Get(v, "paths"))

ZFindings(v) == v.t = "array" /\ \A i \in 1..Len(v.vals) : ZFinding(v.vals[i])

\* the optional string fields of NpmAdvisorySchema
OptionalStrings ==
    { "name", "module_name", "patched_versions", "overview", "recommendation",
      "references", "access", "created", "updated", "github_advisory_id" }

\* mutant: z.object(...).strict(), unknown keys are an error
NpmAdvisorySchemaStrict(value) ==
    /\ value.t = "object"
    /\ Range(value.keys) \subseteq
          OptionalStrings \cup { "id", "title", "severity", "vulnerable_versions", "url",
                                 "cwe", "cves", "cvss", "findings", "deleted" }
    /\ ZString(Get(value, "id")) \/ ZNumber(Get(value, "id"))
    /\ ZString(Get(value, "title"))
    /\ ZString(Get(value, "severity")) /\ Get(value, "severity").s \in Severities
    /\ ZString(Get(value, "vulnerable_versions"))
    /\ ZString(Get(value, "url"))

\* NpmAdvisorySchema.safeParse(value).success
NpmAdvisorySchema(value) ==
    /\ value.t = "object"
    /\ ZString(Get(value, "id")) \/ ZNumber(Get(value, "id"))
    /\ ZString(Get(value, "title"))
    /\ ZString(Get(value, "severity")) /\ Get(value, "severity").s \in Severities
    /\ ZString(Get(value, "vulnerable_versions"))
    /\ ZString(Get(value, "url"))
    /\ \A k \in OptionalStrings : ZAbsent(Get(value, k)) \/ ZString(Get(value, k))
    /\ ZAbsent(Get(value, "cwe")) \/ ZCwe(Get(value, "cwe"))
    /\ ZAbsent(Get(value, "cves")) \/ ZStringArray(Get(value, "cves"))
    /\ ZAbsent(Get(value, "cvss")) \/ ZCvss(Get(value, "cvss"))
    /\ ZAbsent(Get(value, "findings")) \/ ZFindings(Get(value, "findings"))
    /\ ZAbsent(Get(value, "deleted")) \/ ZBoolean(Get(value, "deleted"))

\* the parsed advisory: the fields the scanner goes on to read
ParsedAdvisory(value) ==
    LET opt(k) == IF Get(value, k).t = "undefined" THEN Undefined ELSE Get(value, k).s
    IN  [ id |-> Get(value, "id").s, idIsNumber |-> ZNumber(Get(value, "id")),
          name |-> opt("name"), module_name |-> opt("module_name"),
          severity |-> Get(value, "severity").s,
          vulnerable_versions |-> Get(value, "vulnerable_versions").s,
          title |-> Get(value, "title").s, url |-> Get(value, "url").s,
          overview |-> opt("overview"), recommendation |-> opt("recommendation"),
          cvss |-> IF Get(value, "cvss").t = "undefined" THEN NoCvss
                   ELSE Cvss(FromTenths(Get(Get(value, "cvss"), "score").s)) ]

\* z.record(z.string(), NpmAdvisorySchema).parse(data) succeeds
NpmAuditResponseSchema(data) ==
    /\ data.t = "object"
    /\ \A i \in 1..Len(data.vals) : NpmAdvisorySchema(data.vals[i])

\* z.object({advisories: z.record(...), metadata: z.any().optional()}).parse(data) succeeds
NpmAuditResponseAltSchema(data) ==
    /\ data.t = "object"
    /\ NpmAuditResponseSchema(Get(data, "advisories"))

\* Object.values(advisories)
AdvisoryValues(record) == [i \in 1..Len(record.vals) |-> ParsedAdvisory(record.vals[i])]

\* mutant: no fallback to the alternative format
ParseResponseStandardOnly(data) ==
    IF NpmAuditResponseSchema(data) THEN [ok |-> TRUE, list |-> AdvisoryValues(data)]
    ELSE [ok |-> FALSE, list |-> <<>>]

\* lines 174-185 of executeBulkQuery: [ok, list]
ParseResponse(data) ==
    IF NpmAuditResponseSchema(data) THEN [ok |-> TRUE, list |-> AdvisoryValues(data)]
    ELSE IF NpmAuditResponseAltSchema(data)
    THEN [ok |-> TRUE, list |-> AdvisoryValues(Get(data, "advisories"))]
    ELSE [ok |-> FALSE, list |-> <<>>]

(***************************************************************************)
(* severity.ts and AdvisoryProcessor                                       *)
(***************************************************************************)
FATAL_SEVERITIES == { "critical", "high" }

\* mutant: moderate is taken for a fatal severity
mapSeverityToLevelModerateFatal(severity) ==
    IF severity \in FATAL_SEVERITIES \cup { "moderate" } THEN "fatal" ELSE "warn"

mapSeverityToLevel(severity) == IF severity \in FATAL_SEVERITIES THEN "fatal" ELSE "warn"

\* the literal priorityMap of severityToPriority
PriorityMap ==
    [ critical |-> 5, high |-> 4, moderate |-> 3, low |-> 2, info |-> 1 ]

\* priorityMap[severity] ?? 0: an own entry, a value inherited from
\* Object.prototype (not nullish, so returned as it is), or 0
severityToPriority(severity) ==
    IF severity \in DOMAIN PriorityMap
    THEN [type |-> "number", value |-> PriorityMap[severity]]
    ELSE IF severity \in ObjectPrototypeKeys
    THEN [type |-> "inherited", value |-> 0]
    ELSE [type |-> "number", value |-> 0]

\* mutant: the catch block answers true
isVersionAffectedUnlessUnaffected(version, vulnerableVersions) ==
    SemverSatisfies(version, vulnerableVersions) # "false"

\* mutant: the arguments of Bun.semver.satisfies are swapped
isVersionAffectedSwapped(version, vulnerableVersions) ==
    SemverSatisfies(vulnerableVersions, version) = "true"

\* Bun.semver.satisfies inside try/catch: a throw becomes false
isVersionAffected(version, vulnerableVersions) ==
    SemverSatisfies(version, vulnerableVersions) = "true"

\* isCvssScoreFatal: score >= CVSS_FATAL_THRESHOLD
isCvssScoreFatal(score) == score >= CVSS_FATAL_THRESHOLD

\* the characters String.prototype.trim removes, of those the model writes
WhiteSpace == { " ", "\t", "\n" }

RECURSIVE TrimStart(_)
TrimStart(str) ==
    IF str # "" /\ Head(str) \in WhiteSpace THEN TrimStart(Tail(str)) ELSE str

RECURSIVE TrimEnd(_)
TrimEnd(str) ==
    IF str # "" /\ SubSeq(str, Len(str), Len(str)) \in WhiteSpace
    THEN TrimEnd(SubSeq(str, 1, Len(str) - 1))
    ELSE str

\* str.trim()
Trim(str) == TrimEnd(TrimStart(str))

SentenceEnds == { ".", "!", "?" }

\* the length of the match of /^[^.!?]*[.!?]/, 0 without match
FirstSentenceEnd(str) ==
    LET ends == { i \in 1..Len(str) : SubSeq(str, i, i) \in SentenceEnds }
    IN  IF ends = {} THEN 0 ELSE CHOOSE i \in ends : \A j \in ends : i <= j

\* str.substring(0, n)
Substring(str, n) == SubSeq(str, 1, Min(n, Len(str)))

\* the hard truncation of both branches
Ellipsize(str) == Substring(str, MAX_DESCRIPTION_LENGTH - 3) \o "..."

\* mutant: the recommendation is preferred
getAdvisoryDescriptionRecommendationFirst(advisory) ==
    IF advisory.recommendation # Undefined /\ Trim(advisory.recommendation) # ""
    THEN Trim(advisory.recommendation)
    ELSE IF advisory.overview # Undefined /\ Trim(advisory.overview) # ""
    THEN Trim(advisory.overview)
    ELSE Null

\* mutant: the text is cut at the maximum and the ellipsis added after it
getAdvisoryDescriptionLongEllipsis(advisory) ==
    LET text == IF advisory.overview # Undefined /\ Trim(advisory.overview) # ""
                THEN Trim(advisory.overview)
                ELSE IF advisory.recommendation # Undefined
                THEN Trim(advisory.recommendation)
                ELSE ""
    IN  IF text = "" THEN Null
        ELSE IF Len(text) <= MAX_DESCRIPTION_LENGTH THEN text
        ELSE Substring(text, MAX_DESCRIPTION_LENGTH) \o "..."

\* mutant: no sentence step, a long overview is always cut
getAdvisoryDescriptionNoSentence(advisory) ==
    LET text == IF advisory.overview # Undefined /\ Trim(advisory.overview) # ""
                THEN Trim(advisory.overview)
                ELSE IF advisory.recommendation # Undefined
                THEN Trim(advisory.recommendation)
                ELSE ""
    IN  IF text = "" THEN Null
        ELSE IF Len(text) <= MAX_DESCRIPTION_LENGTH THEN text
        ELSE Ellipsize(text)

getAdvisoryDescription(advisory) ==
    IF advisory.overview # Undefined /\ Trim(advisory.overview) # ""
    THEN LET overview == Trim(advisory.overview)
             firstSentence == Substring(overview, FirstSentenceEnd(overview))
         IN  IF Len(overview) <= MAX_DESCRIPTION_LENGTH THEN overview
             ELSE IF firstSentence # "" /\ Len(firstSentence) <= MAX_DESCRIPTION_LENGTH
             THEN firstSentence
             ELSE Ellipsize(overview)
    ELSE IF advisory.recommendation # Undefined /\ Trim(advisory.recommendation) # ""
    THEN LET recommendation == Trim(advisory.recommendation)
         IN  IF Len(recommendation) <= MAX_DESCRIPTION_LENGTH THEN recommendation
             ELSE Ellipsize(recommendation)
    ELSE Null

\* mutant: the message is the title, whatever it is
createBunAdvisoryTitleOnly(advisory, pkg) ==
    [ id |-> advisory.id,
      message |-> advisory.title,
      level |-> mapSeverityToLevel(advisory.severity),
      package |-> pkg.name, url |-> advisory.url,
      description |-> getAdvisoryDescription(advisory) ]

\* mutant: a fatal score raises the level
createBunAdvisoryScored(advisory, pkg) ==
    [ id |-> advisory.id,
      message |-> IF advisory.title # "" THEN advisory.title
                  ELSE "Security advisory " \o advisory.id,
      level |-> IF advisory.cvss.present /\ isCvssScoreFatal(advisory.cvss.score)
                THEN "fatal" ELSE mapSeverityToLevel(advisory.severity),
      package |-> pkg.name, url |-> advisory.url,
      description |-> getAdvisoryDescription(advisory) ]

\* id: String(advisory.id), the numeral of a numeric id
createBunAdvisory(advisory, pkg) ==
    [ id |-> advisory.id,
      message |-> IF advisory.title # "" THEN advisory.title
                  ELSE "Security advisory " \o advisory.id,
      level |-> mapSeverityToLevel(advisory.severity),
      package |-> pkg.name, url |-> advisory.url,
      description |-> getAdvisoryDescription(advisory) ]

PairKey(advisory, pkg) == advisory.id \o ":" \o pkg.name \o "@" \o pkg.version

\* mutant: the deprecated field is preferred
AdvisoryPackageNameModuleFirst(advisory) ==
    IF advisory.module_name # Undefined /\ advisory.module_name # ""
    THEN advisory.module_name
    ELSE advisory.name

\* advisory.name || advisory.module_name
AdvisoryPackageName(advisory) ==
    IF advisory.name # Undefined /\ advisory.name # "" THEN advisory.name
    ELSE advisory.module_name

\* mutant: no pair is remembered
NeverProcessed(seen, pairKey) == FALSE

\* seenPairs.has(pairKey)
AlreadyProcessed(seen, pairKey) == pairKey \in seen

\* mutant: the loop over the packages ends at the first record
RECURSIVE MatchLoopFirstHit(_, _, _)
MatchLoopFirstHit(st, advisory, pkgs) ==
    IF pkgs = <<>> THEN st
    ELSE LET pkg == Head(pkgs)
             hit == /\ pkg.name = AdvisoryPackageName(advisory)
                    /\ ~AlreadyProcessed(st.seen, PairKey(advisory, pkg))
                    /\ isVersionAffected(pkg.version, advisory.vulnerable_versions)
         IN  IF hit
             THEN [out |-> Append(st.out, createBunAdvisory(advisory, pkg)),
                   seen |-> st.seen \cup { PairKey(advisory, pkg) }]
             ELSE MatchLoopFirstHit(st, advisory, Tail(pkgs))

\* the loop of processAdvisory over the packages; st = [out, seen]
RECURSIVE MatchLoop(_, _, _)
MatchLoop(st, advisory, pkgs) ==
    IF pkgs = <<>> THEN st
    ELSE LET pkg == Head(pkgs)
             hit == /\ pkg.name = AdvisoryPackageName(advisory)
                    /\ ~AlreadyProcessed(st.seen, PairKey(advisory, pkg))
                    /\ isVersionAffected(pkg.version, advisory.vulnerable_versions)
             next == IF hit
                     THEN [out |-> Append(st.out, createBunAdvisory(advisory, pkg)),
                           seen |-> st.seen \cup { PairKey(advisory, pkg) }]
                     ELSE st
         IN  MatchLoop(next, advisory, Tail(pkgs))

processAdvisory(st, advisory, pkgs) ==
    IF AdvisoryPackageName(advisory) \in { Undefined, "" }
    THEN st
    ELSE MatchLoop(st, advisory, pkgs)

RECURSIVE AdvisoryLoop(_, _, _)
AdvisoryLoop(st, advisories, pkgs) ==
    IF advisories = <<>> THEN st
    ELSE AdvisoryLoop(processAdvisory(st, Head(advisories), pkgs), Tail(advisories), pkgs)

\* mutant: the packages are the outer loop
RECURSIVE PackageMajorLoop(_, _, _)
PackageMajorLoop(st, advisories, pkgs) ==
    IF pkgs = <<>> THEN st
    ELSE PackageMajorLoop(AdvisoryLoop(st, advisories, << Head(pkgs) >>),
                          advisories, Tail(pkgs))

processAdvisoriesPackageMajor(advisories, pkgs) ==
    PackageMajorLoop([out |-> <<>>, seen |-> {}], advisories, pkgs).out

processAdvisories(advisories, pkgs) ==
    IF advisories = <<>> \/ pkgs = <<>> THEN <<>>
    ELSE AdvisoryLoop([out |-> <<>>, seen |-> {}], advisories, pkgs).out

(***************************************************************************)
(* constants.ts: getConfig                                                 *)
(***************************************************************************)
\* configuration values: strings, booleans, numbers in hundredths, and NaN
StringValue(str) == [t |-> "string", s |-> str, n |-> 0, b |-> FALSE]
NumberValue(hundredths) == [t |-> "number", s |-> "", n |-> hundredths, b |-> FALSE]
BooleanValue(bool) == [t |-> "boolean", s |-> "", n |-> 0, b |-> bool]
NaN == [t |-> "NaN", s |-> "", n |-> 0, b |-> FALSE]

UpperCase == "ABCDEFGHIJKLMNOPQRSTUVWXYZ"
LowerCase == "abcdefghijklmnopqrstuvwxyz"

\* str.toLowerCase()
RECURSIVE ToLowerCase(_)
ToLowerCase(str) ==
    IF str = "" THEN ""
    ELSE LET c == Head(str)
             at == { i \in 1..Len(UpperCase) : SubSeq(UpperCase, i, i) = c }
         IN  (IF at = {} THEN c
              ELSE LET i == CHOOSE i \in at : TRUE IN SubSeq(LowerCase, i, i))
                 \o ToLowerCase(Tail(str))

\* an unsigned decimal literal digits[.digits] in hundredths, -1 when it is none
UnsignedHundredths(str) ==
    LET parts == Split(str, ".", "")
        whole == ParseNumeral(parts[1])
        cents == IF Len(parts) = 1 THEN 0
                 ELSE IF Len(parts[2]) = 1 THEN 10 * ParseNumeral(parts[2])
                 ELSE IF Len(parts[2]) = 2 THEN ParseNumeral(parts[2])
                 ELSE -1
    IN  IF Len(parts) > 2 \/ whole < 0 \/ cents < 0 THEN -1 ELSE 100 * whole + cents

\* Number(str) for decimal literals of at most two decimals: white space around
\* the literal is dropped, the empty literal is 0, anything else is NaN
NumberOf(str) ==
    LET text == Trim(str)
        negative == text # "" /\ Head(text) = "-"
        magnitude == UnsignedHundredths(IF negative THEN Tail(text) ELSE text)
    IN  IF text = "" THEN NumberValue(0)
        ELSE IF magnitude < 0 THEN NaN
        ELSE NumberValue(IF negative THEN 0 - magnitude ELSE magnitude)

\* Number.parseInt(str, 10): the leading integer of the text, NaN without one
RECURSIVE LeadingDigits(_)
LeadingDigits(str) ==
    IF str = "" \/ DigitValue(Head(str)) < 0 THEN ""
    ELSE Head(str) \o LeadingDigits(Tail(str))

ParseInt(str) ==
    LET text == TrimStart(str)
        negative == text # "" /\ Head(text) = "-"
        digits == LeadingDigits(IF negative THEN Tail(text) ELSE text)
    IN  IF digits = "" THEN NaN
        ELSE NumberValue((IF negative THEN -100 ELSE 100) * ParseNumeral(digits))

\* the custom parsers of the tests: [threw, value]
Parsers == { "none", "double", "throws" }

ApplyParser(parser, envValue) ==
    IF parser = "throws" THEN [threw |-> TRUE, value |-> NaN]
    ELSE LET parsed == ParseInt(envValue)
         IN  [threw |-> FALSE,
              value |-> IF parsed = NaN THEN NaN ELSE NumberValue(2 * parsed.n)]

\* getConfig(envVar, defaultValue, parser) when Bun.env[envVar] is envValue
getConfig(envValue, defaultValue, parser) ==
    IF envValue = Undefined \/ envValue = "" THEN defaultValue
    ELSE IF parser # "none"
    THEN IF ApplyParser(parser, envValue).threw THEN defaultValue
         ELSE ApplyParser(parser, envValue).value
    ELSE IF defaultValue.t = "number"
    THEN IF NumberOf(envValue) = NaN THEN defaultValue ELSE NumberOf(envValue)
    ELSE IF defaultValue.t = "boolean"
    THEN BooleanValue(ToLowerCase(envValue) = "true")
    ELSE StringValue(envValue)

(***************************************************************************)
(* The state of one scan.                                                  *)
(***************************************************************************)
VARIABLES
    packages,        \* the argument of scan
    maxPerRequest,   \* NPM_AUDIT_API.MAX_PACKAGES_PER_REQUEST
    pc,              \* where the scan is: ready, query, fetching, backoff, decoding, done
    uniquePackages,  \* queryVulnerabilities: the deduplicated list
    batched,         \* queryVulnerabilities took the queryInBatches branch
    batchStart,      \* queryInBatches: the loop variable i
    payload,         \* executeBulkQuery: the request object being sent
    attempts,        \* withRetry: request attempts made for the current bulk query
    inFlight,        \* fetch calls started and not yet settled
    body,            \* the body of the 2xx response being decoded
    advisories,      \* queryInBatches: the accumulated advisories
    issued,          \* history: the package slice of every executeBulkQuery call
    outcomes,        \* history: how every executeBulkQuery call ended
    queryOutcome,    \* how queryVulnerabilities ended: pending, returned, thrown
    queryError,      \* the error queryVulnerabilities threw
    result,          \* what scan returned
    scanOutcome,     \* how scan ended: pending, returned, thrown
    call,            \* a direct call of one exported function: its name and arguments
    ret,             \* what that call returned
    scans            \* overlapping invocations of scan: each one's arguments and locals

vars ==
    << packages, maxPerRequest, pc, uniquePackages, batched, batchStart, payload,
       attempts, inFlight, body, advisories, issued, outcomes, queryOutcome,
       queryError, result, scanOutcome, call, ret, scans >>

\* the variables of scan
scanVars ==
    << packages, maxPerRequest, pc, uniquePackages, batched, batchStart, payload,
       attempts, inFlight, body, advisories, issued, outcomes, queryOutcome,
       queryError, result, scanOutcome >>

\* the variables of a direct call
callVars == << call, ret >>

NoCall == [fn |-> "none"]

\* the invocations of scanner.scan that can overlap
ScanIds == 1..MaxScans

\* an invocation that has not been made
IdleScan ==
    [ pc |-> "idle", packages |-> <<>>, advisories |-> <<>>, thrown |-> FALSE,
      processedPairs |-> {}, result |-> <<>> ]

NoScans == [i \in ScanIds |-> IdleScan]

\* the variables a bulk query leaves to the code that awaits it
flow == << pc, batchStart, advisories, outcomes, queryOutcome, queryError, result, scanOutcome >>

\* withRetry: the first attempt plus MAX_RETRY_ATTEMPTS retries
MaxAttempts == MAX_RETRY_ATTEMPTS + 1

TransportErrors == { "network", "status", "timeout" }

Init ==
    /\ packages \in PackageLists
    /\ maxPerRequest \in 1..MaxBatchSize
    /\ pc = "ready"
    /\ uniquePackages = <<>>
    /\ batched = FALSE
    /\ batchStart = 0
    /\ payload = <<>>
    /\ attempts = 0
    /\ inFlight = 0
    /\ body = "none"
    /\ advisories = <<>>
    /\ issued = <<>>
    /\ outcomes = <<>>
    /\ queryOutcome = "pending"
    /\ queryError = "none"
    /\ result = <<>>
    /\ scanOutcome = "pending"
    /\ call = NoCall
    /\ ret = NoCall
    /\ scans = NoScans

(***************************************************************************)
(* scanner.scan: the two ways out of its try block.                        *)
(***************************************************************************)
\* the try block runs to its return statement
ScanReturns(advs) ==
    /\ result' = processAdvisories(advs, packages)
    /\ scanOutcome' = "returned"
    /\ pc' = "done"

\* mutant: the catch clause logs and rethrows
ScanCatchRethrows(err) ==
    /\ result' = result
    /\ scanOutcome' = "thrown"
    /\ pc' = "done"

\* the catch clause: log and return []
ScanCatch(err) ==
    /\ result' = <<>>
    /\ scanOutcome' = "returned"
    /\ pc' = "done"

\* queryVulnerabilities returns advs to scan
QueryReturns(advs) ==
    /\ queryOutcome' = "returned"
    /\ queryError' = queryError
    /\ advisories' = advs
    /\ ScanReturns(advs)

\* queryVulnerabilities throws err to scan
QueryThrows(err) ==
    /\ queryOutcome' = "thrown"
    /\ queryError' = err
    /\ advisories' = advisories
    /\ ScanCatch(err)

(***************************************************************************)
(* queryInBatches: the rest of one loop iteration, after its bulk query.   *)
(***************************************************************************)
\* i += batchSize, then the loop test
NextBatch(advs) ==
    IF batchStart + maxPerRequest < Len(uniquePackages)
    THEN /\ batchStart' = batchStart + maxPerRequest
         /\ advisories' = advs
         /\ pc' = "query"
         /\ UNCHANGED << queryOutcome, queryError, result, scanOutcome >>
    ELSE /\ batchStart' = batchStart
         /\ QueryReturns(advs)

\* mutant: advisories = batchAdvisories, the earlier batches are lost
BatchSucceededOverwrites(list) == NextBatch(list)

\* advisories.push(...batchAdvisories)
BatchSucceeded(list) == NextBatch(advisories \o list)

\* the catch clause of the loop body: log, continue with the next batch
BatchFailed(err) == NextBatch(advisories)

\* queryVulnerabilities line 50: return await this.executeBulkQuery(requestPayload)
SingleSucceeded(list) ==
    /\ batchStart' = batchStart
    /\ QueryReturns(list)

\* mutant: the single query is wrapped in the catch-and-skip of the batches
SingleFailedSwallowed(err) ==
    /\ batchStart' = batchStart
    /\ QueryReturns(<<>>)

SingleFailed(err) ==
    /\ batchStart' = batchStart
    /\ QueryThrows(err)

\* executeBulkQuery returned list to its caller
BulkQueryReturns(list) ==
    /\ outcomes' = Append(outcomes, "ok")
    /\ IF batched THEN BatchSucceeded(list) ELSE SingleSucceeded(list)

\* executeBulkQuery threw err to its caller
BulkQueryThrows(err) ==
    /\ outcomes' = Append(outcomes, err)
    /\ IF batched THEN BatchFailed(err) ELSE SingleFailed(err)

(***************************************************************************)
(* Actions.                                                                *)
(***************************************************************************)
\* mutant: queryVulnerabilities without its test for the empty list
ScanWithoutEmptyTest ==
    /\ pc = "ready"
    /\ UNCHANGED << packages, maxPerRequest, payload, attempts, inFlight, body, issued, outcomes >>
    /\ LET unique == deduplicatePackages(packages)
           built == buildRequestPayload(unique)
       IN  /\ uniquePackages' = unique
           /\ IF built.threw
              THEN /\ UNCHANGED << batched, batchStart >>
                   /\ QueryThrows("TypeError")
              ELSE /\ batched' = (Len(unique) > maxPerRequest)
                   /\ pc' = "query"
                   /\ UNCHANGED << batchStart, advisories, queryOutcome, queryError,
                                   result, scanOutcome >>
    /\ UNCHANGED << callVars, scans >>

\* scan up to the first bulk query: construction, the empty-list return,
\* deduplication, the payload of the whole list, the choice of branch
Scan ==
    /\ pc = "ready"
    /\ UNCHANGED << packages, maxPerRequest, payload, attempts, inFlight, body, issued, outcomes >>
    /\ IF packages = <<>>
       THEN /\ UNCHANGED << uniquePackages, batched, batchStart >>
            /\ QueryReturns(<<>>)
       ELSE LET unique == deduplicatePackages(packages)
                built == buildRequestPayload(unique)
            IN  /\ uniquePackages' = unique
                /\ IF built.threw
                   THEN /\ UNCHANGED << batched, batchStart >>
                        /\ QueryThrows("TypeError")
                   ELSE /\ batched' = (Len(unique) > maxPerRequest)
                        /\ pc' = "query"
                        /\ UNCHANGED << batchStart, advisories, queryOutcome, queryError,
                                        result, scanOutcome >>
    /\ UNCHANGED << callVars, scans >>

\* the packages of the bulk query about to be made
CurrentSlice ==
    IF batched THEN Slice(uniquePackages, batchStart, maxPerRequest) ELSE uniquePackages

\* executeBulkQuery up to its first await: payload, JSON, gzip, first fetch
ExecuteBulkQuery ==
    /\ pc = "query"
    /\ LET built == buildRequestPayload(CurrentSlice)
       IN  IF built.threw
           THEN \* line 112 is outside the try of the loop body
                /\ batchStart' = batchStart
                /\ outcomes' = outcomes
                /\ QueryThrows("TypeError")
                /\ UNCHANGED << payload, attempts, inFlight, issued >>
           ELSE /\ payload' = built.map
                /\ issued' = Append(issued, CurrentSlice)
                /\ attempts' = 1
                /\ inFlight' = inFlight + 1
                /\ pc' = "fetching"
                /\ UNCHANGED << batchStart, advisories, outcomes, queryOutcome, queryError,
                                result, scanOutcome >>
    /\ UNCHANGED << packages, maxPerRequest, uniquePackages, batched, body >>
    /\ UNCHANGED << callVars, scans >>

\* withRetry after a failed attempt: wait and try again, or give up
AfterFailedAttempt(err) ==
    IF attempts < MaxAttempts
    THEN /\ pc' = "backoff"
         /\ UNCHANGED << batchStart, advisories, outcomes, queryOutcome, queryError,
                         result, scanOutcome >>
    ELSE BulkQueryThrows(err)

\* mutant: no abort signal, a request that timed out stays open during the retry
AttemptFailsNoAbort ==
    /\ pc = "fetching"
    /\ \E err \in TransportErrors :
          /\ inFlight' = IF err = "timeout" THEN inFlight ELSE inFlight - 1
          /\ AfterFailedAttempt(err)
    /\ UNCHANGED << packages, maxPerRequest, uniquePackages, batched, payload, attempts,
                    body, issued >>
    /\ UNCHANGED << callVars, scans >>

\* mutant: fetch is called without withRetry, the first failure is final
AttemptFailsUnretried ==
    /\ pc = "fetching"
    /\ \E err \in TransportErrors :
          /\ inFlight' = inFlight - 1
          /\ BulkQueryThrows(err)
    /\ UNCHANGED << packages, maxPerRequest, uniquePackages, batched, payload, attempts,
                    body, issued >>
    /\ UNCHANGED << callVars, scans >>

\* an attempt ends without a 2xx response: fetch rejects (network error, abort by
\* the timeout signal) or the callback throws on !res.ok
AttemptFails ==
    /\ pc = "fetching"
    /\ \E err \in TransportErrors :
          /\ inFlight' = inFlight - 1
          /\ AfterFailedAttempt(err)
    /\ UNCHANGED << packages, maxPerRequest, uniquePackages, batched, payload, attempts,
                    body, issued >>
    /\ UNCHANGED << callVars, scans >>

\* withRetry: the backoff delay is over, the callback runs again
Retry ==
    /\ pc = "backoff"
    /\ attempts' = attempts + 1
    /\ inFlight' = inFlight + 1
    /\ pc' = "fetching"
    /\ UNCHANGED << packages, maxPerRequest, uniquePackages, batched, batchStart, payload,
                    body, advisories, issued, outcomes, queryOutcome, queryError, result,
                    scanOutcome >>
    /\ UNCHANGED << callVars, scans >>

\* an attempt ends with a 2xx response: withRetry returns it
AttemptSucceeds ==
    /\ pc = "fetching"
    /\ \E b \in BodyKinds : body' = b
    /\ inFlight' = inFlight - 1
    /\ pc' = "decoding"
    /\ UNCHANGED << packages, maxPerRequest, uniquePackages, batched, batchStart, payload,
                    attempts, advisories, issued, outcomes, queryOutcome, queryError,
                    result, scanOutcome >>
    /\ UNCHANGED << callVars, scans >>

\* mutant: decoding and validation sit inside the retried callback
AfterResponseRetried ==
    IF body = "not-json"
    THEN AfterFailedAttempt("json")
    ELSE LET parsed == ParseResponse(ResponseData(body, payload))
         IN  IF parsed.ok THEN BulkQueryReturns(parsed.list) ELSE AfterFailedAttempt("schema")

\* executeBulkQuery after withRetry: response.json(), the two schemas, the list
AfterResponse ==
    IF body = "not-json"
    THEN BulkQueryThrows("json")
    ELSE \E answer \in { RegistryAnswer(payload) } :
            \E data \in { ResponseBody(body, answer) } :
                \E parsed \in { ParseResponse(data) } :
                    IF parsed.ok THEN BulkQueryReturns(parsed.list)
                    ELSE BulkQueryThrows("schema")

Decode ==
    /\ pc = "decoding"
    /\ AfterResponse
    /\ UNCHANGED << packages, maxPerRequest, uniquePackages, batched, payload, attempts,
                    inFlight, body, issued >>
    /\ UNCHANGED << callVars, scans >>

Next ==
    \/ Scan
    \/ ExecuteBulkQuery
    \/ AttemptFails
    \/ Retry
    \/ AttemptSucceeds
    \/ Decode

Spec == Init /\ [][Next]_vars

\* The runtime runs a scan that can take a step: the synchronous code and the
\* continuations of settled promises run, the back-off timer fires, and every
\* request attempt settles, by a response, a transport failure or the abort
\* of its timeout.
FairSpec ==
    /\ Spec
    /\ WF_vars(Scan)
    /\ WF_vars(ExecuteBulkQuery)
    /\ WF_vars(AttemptFails \/ AttemptSucceeds)
    /\ WF_vars(Retry)
    /\ WF_vars(Decode)

TypeOK ==
    /\ pc \in { "ready", "query", "fetching", "backoff", "decoding", "done" }
    /\ scanOutcome \in { "pending", "returned", "thrown" }
    /\ queryOutcome \in { "pending", "returned", "thrown" }
    /\ inFlight \in 0..1
    /\ attempts \in 0..MaxAttempts

(***************************************************************************)
(* Direct calls of the exported functions, one action per function. The    *)
(* scan stays where it is; call and ret hold the arguments and the value    *)
(* of the call in progress.                                                *)
(***************************************************************************)
CallInit ==
    /\ packages = <<>>
    /\ maxPerRequest = 1
    /\ pc = "ready"
    /\ uniquePackages = <<>>
    /\ batched = FALSE
    /\ batchStart = 0
    /\ payload = <<>>
    /\ attempts = 0
    /\ inFlight = 0
    /\ body = "none"
    /\ advisories = <<>>
    /\ issued = <<>>
    /\ outcomes = <<>>
    /\ queryOutcome = "pending"
    /\ queryError = "none"
    /\ result = <<>>
    /\ scanOutcome = "pending"
    /\ call = NoCall
    /\ ret = NoCall
    /\ scans = NoScans

\* labels that are none of the five severities
UnknownLabels == { "unknown", "", "CRITICAL", "constructor", "toString", "__proto__" }

CallMapSeverityToLevel ==
    /\ call = NoCall
    /\ \E s \in Severities :
          /\ call' = [fn |-> "mapSeverityToLevel", severity |-> s]
          /\ ret' = [fn |-> "mapSeverityToLevel", value |-> mapSeverityToLevel(s)]
    /\ UNCHANGED << scanVars, scans >>

CallSeverityToPriority ==
    /\ call = NoCall
    /\ \E s \in Severities \cup UnknownLabels :
          /\ call' = [fn |-> "severityToPriority", severity |-> s]
          /\ ret' = [fn |-> "severityToPriority", value |-> severityToPriority(s)]
    /\ UNCHANGED << scanVars, scans >>

\* versions and vulnerable ranges the matcher is called with
MatcherVersions ==
    { "0.8.0", "0.21.0", "1.0.0", "2.0.0", "3.3.6", "4.17.19", "4.17.20",
      "4.17.21", "10.0.0" }

SimpleRanges ==
    { "*", "<4.17.20", "=3.3.6", ">=0.8.1", "<0.21.1", "<=1.0.0", ">2.0.0",
      "3.3.6", "invalid-range" }

MatcherRanges ==
    SimpleRanges
        \cup { a \o " " \o b : a, b \in SimpleRanges }
        \cup { a \o " || " \o b : a, b \in SimpleRanges }

CallIsVersionAffected ==
    /\ call = NoCall
    /\ \E version \in MatcherVersions, range \in MatcherRanges :
          /\ call' = [fn |-> "isVersionAffected", version |-> version, range |-> range]
          /\ ret' = [fn |-> "isVersionAffected",
                     value |-> isVersionAffected(version, range)]
    /\ UNCHANGED << scanVars, scans >>

CallProcessAdvisories ==
    /\ call = NoCall
    /\ \E advs \in SeqsUpTo(ProcessorAdvisories, MaxAdvisories),
          pkgs \in SeqsUpTo(ProcessorPackages, MaxPackages) :
          /\ call' = [fn |-> "processAdvisories", advisories |-> advs, packages |-> pkgs]
          /\ ret' = [fn |-> "processAdvisories", value |-> processAdvisories(advs, pkgs)]
    /\ UNCHANGED << scanVars, scans >>

\* an object of the fields that are not undefined
ObjectOf(fields) ==
    LET present == SelectSeq(fields, LAMBDA f : f[2] # JUndefined)
    IN  JObject([i \in 1..Len(present) |-> present[i][1]],
                [i \in 1..Len(present) |-> present[i][2]])

\* what an advisory can carry besides the five required fields
OtherFields ==
    { <<>>,
      << << "extra", JString("x") >>, << "metadata", JObject(<<>>, <<>>) >> >>,
      << << "name", JString("p") >>, << "cvss", JObject(<< "score" >>, << JNumber("7.5") >>) >>,
         << "cves", JArray(<< JString("CVE-1") >>) >>, << "deleted", JBoolean("false") >> >>,
      << << "name", JNull >> >>,
      << << "cvss", JObject(<<>>, <<>>) >> >> }

\* the values NpmAdvisorySchema is called with
AdvisoryValuesToCheck ==
    { JNull, JString("advisory"), JArray(<<>>) }
        \cup { ObjectOf(<< << "id", id >>, << "title", title >>, << "severity", severity >>,
                            << "vulnerable_versions", range >>, << "url", url >> >> \o other) :
                  id \in { JString("GHSA-1"), JNumber("1065"), JUndefined, JNull, JBoolean("true") },
                  title \in { JString("t"), JUndefined, JNumber("1") },
                  severity \in { JString("high"), JString("info"), JUndefined,
                                 JString("unknown"), JNumber("5") },
                  range \in { JString("*"), JUndefined, JNull },
                  url \in { JString("https://x"), JUndefined, JNumber("0") },
                  other \in OtherFields }

CallNpmAdvisorySchema ==
    /\ call = NoCall
    /\ \E value \in AdvisoryValuesToCheck :
          /\ call' = [fn |-> "NpmAdvisorySchema", value |-> value]
          /\ ret' = [fn |-> "NpmAdvisorySchema", value |-> NpmAdvisorySchema(value)]
    /\ UNCHANGED << scanVars, scans >>

\* the records of the response bodies: two valid ones, one with an unknown
\* severity, one that a wrapper could be mistaken for
ResponseRecords ==
    { Adv("1", TRUE, "p", Undefined, "high", "*"),
      Adv("3", FALSE, Undefined, "p", "critical", "*"),
      Adv("8", FALSE, "p", Undefined, "unknown", "*"),
      Adv("advisories", FALSE, "p", Undefined, "low", "*") }

\* the mappings identifier -> record, an identifier being a key once
ResponseMappings ==
    { AdvisoryMapping(advs) :
        advs \in { l \in SeqsUpTo(ResponseRecords, MaxAdvisories) :
                     \A i, j \in 1..Len(l) : l[i].id = l[j].id => i = j } }

\* the decoded bodies the two response schemas are tried on
ResponseBodies ==
    ResponseMappings
        \cup { JObject(<< "advisories" >>, << m >>) : m \in ResponseMappings }
        \cup { JObject(<< "advisories", "metadata" >>, << m, meta >>) :
                  m \in ResponseMappings, meta \in { AuditMetadata, JNull, JString("none") } }
        \cup { JNull, JString("Service Unavailable"), JArray(<<>>),
               JObject(<< "advisories" >>, << JNull >>),
               JObject(<< "metadata" >>, << AuditMetadata >>) }

CallParseResponse ==
    /\ call = NoCall
    /\ \E data \in ResponseBodies :
          /\ call' = [fn |-> "parseResponse", data |-> data]
          /\ ret' = [fn |-> "parseResponse", value |-> ParseResponse(data)]
    /\ UNCHANGED << scanVars, scans >>

\* n copies of the character ch
RECURSIVE Repeat(_, _)
Repeat(ch, n) ==
    IF n = 0 THEN ""
    ELSE LET half == Repeat(ch, n \div 2)
         IN  half \o half \o (IF n % 2 = 1 THEN ch ELSE "")

\* overviews and recommendations: absent, blank, short, at and over the maximum,
\* with and without a sentence end inside the maximum
DescriptionTexts ==
    { Undefined, "", " \n ",
      "  Short text. More of it!  ",
      Repeat("a", MAX_DESCRIPTION_LENGTH),
      "\t" \o Repeat("a", MAX_DESCRIPTION_LENGTH) \o "  ",
      Repeat("a", MAX_DESCRIPTION_LENGTH + 1),
      Repeat("a", MAX_DESCRIPTION_LENGTH + 100),
      "First sentence. " \o Repeat("b", MAX_DESCRIPTION_LENGTH + 50),
      "Is it so? " \o Repeat("b", MAX_DESCRIPTION_LENGTH) \o ". End.",
      Repeat("c", MAX_DESCRIPTION_LENGTH - 1) \o "!" \o Repeat("d", 10),
      Repeat("c", MAX_DESCRIPTION_LENGTH) \o "." \o Repeat("d", 10) }

\* the advisories createBunAdvisory is called with
AdvisoriesToConvert ==
    { [Adv(id[1], id[2], "p", Undefined, "high", "*") EXCEPT
          !.title = title, !.overview = overview, !.recommendation = recommendation] :
        id \in { << "1065", TRUE >>, << "GHSA-1", FALSE >> },
        title \in { "Prototype Pollution", "" },
        overview \in DescriptionTexts,
        recommendation \in DescriptionTexts }
    \cup
    { [Adv(id[1], id[2], "p", Undefined, severity, "*") EXCEPT
          !.cvss = cvss, !.overview = overview] :
        id \in { << "1065", TRUE >>, << "GHSA-1", FALSE >> },
        severity \in Severities,
        cvss \in { NoCvss, Cvss(0), Cvss(69), Cvss(70), Cvss(98) },
        overview \in { Undefined, "An overview." } }

CallCreateBunAdvisory ==
    /\ call = NoCall
    /\ \E advisory \in AdvisoriesToConvert, pkg \in ProcessorPackages :
          \* processAdvisory converts matched packages only
          /\ pkg.name = AdvisoryPackageName(advisory)
          /\ call' = [fn |-> "createBunAdvisory", advisory |-> advisory, pkg |-> pkg]
          /\ ret' = [fn |-> "createBunAdvisory", value |-> createBunAdvisory(advisory, pkg)]
    /\ UNCHANGED << scanVars, scans >>

\* what Bun.env holds for the variable, and the defaults of the configuration
EnvValues ==
    { Undefined, "", " ", "custom", "42", "-42", "3.14", " 7 ", "not-a-number",
      "12px", "true", "TRUE", "True", "false", "FALSE", "yes", "1" }

ConfigDefaults ==
    { StringValue("default"), NumberValue(0), NumberValue(1000),
      BooleanValue(TRUE), BooleanValue(FALSE) }

CallGetConfig ==
    /\ call = NoCall
    /\ \E envValue \in EnvValues, defaultValue \in ConfigDefaults, parser \in Parsers :
          \* the custom parsers of the model return numbers
          /\ parser # "none" => defaultValue.t = "number"
          /\ call' = [fn |-> "getConfig", envValue |-> envValue,
                      defaultValue |-> defaultValue, parser |-> parser]
          /\ ret' = [fn |-> "getConfig", value |-> getConfig(envValue, defaultValue, parser)]
    /\ UNCHANGED << scanVars, scans >>

\* the caller is done with the value; the next call can be made
CallReturned ==
    /\ call # NoCall
    /\ call' = NoCall
    /\ ret' = NoCall
    /\ UNCHANGED << scanVars, scans >>

CallNext ==
    \/ CallReturned
    \/ CallGetConfig
    \/ CallCreateBunAdvisory
    \/ CallNpmAdvisorySchema
    \/ CallParseResponse
    \/ CallProcessAdvisories
    \/ CallIsVersionAffected
    \/ CallMapSeverityToLevel
    \/ CallSeverityToPriority

CallSpec == CallInit /\ [][CallNext]_vars

(***************************************************************************)
(* Several invocations of scanner.scan in one process. An invocation       *)
(* builds its own client and processor, gives up control only while it     *)
(* awaits queryVulnerabilities, and runs processAdvisories to its end when *)
(* it resumes; scans[i] holds its argument, the advisories its query       *)
(* returned, the processedPairs set of its processAdvisories run and what  *)
(* it returned.                                                            *)
(***************************************************************************)
\* the package lists the invocations are called with
ScanPackageLists ==
    { << >>,
      << Pkg("p", "1.0.0", "^1.0.0") >>,
      << Pkg("p", "1.0.0", "^1.0.0"), Pkg("p", "2.0.0", "*") >>,
      << Pkg("p", "2.0.0", "*"), Pkg("q", "1.0.0", "^1.0.0"), Pkg("p", "2.0.0", "*") >> }

\* what queryVulnerabilities can resolve to
QueryResults ==
    { << >>,
      << Adv("1", TRUE, "p", Undefined, "high", "*") >>,
      << Adv("2", TRUE, "p", Undefined, "low", "<2.0.0"),
         Adv("1", TRUE, "p", Undefined, "high", "*"),
         Adv("4", FALSE, "q", "p", "moderate", "*") >> }

\* the processedPairs set at the end of a processAdvisories run
processedPairs(advs, pkgs) ==
    IF advs = <<>> \/ pkgs = <<>> THEN {}
    ELSE AdvisoryLoop([out |-> <<>>, seen |-> {}], advs, pkgs).seen

\* scan is called: client and processor are built, the query is awaited
ScanStart ==
    \E i \in ScanIds, pkgs \in ScanPackageLists :
        /\ scans[i].pc = "idle"
        /\ scans' = [scans EXCEPT ![i] = [IdleScan EXCEPT !.pc = "awaiting",
                                                         !.packages = pkgs]]
        /\ UNCHANGED << scanVars, callVars >>

\* mutant: one processedPairs set serves every run of the process
ScanResumesSharedPairs ==
    \E i \in ScanIds, advs \in QueryResults :
        /\ scans[i].pc = "awaiting"
        /\ LET held == UNION { scans[j].processedPairs : j \in ScanIds }
               st == IF advs = <<>> \/ scans[i].packages = <<>>
                     THEN [out |-> <<>>, seen |-> held]
                     ELSE AdvisoryLoop([out |-> <<>>, seen |-> held],
                                       advs, scans[i].packages)
           IN  scans' = [scans EXCEPT ![i] = [@ EXCEPT !.pc = "done",
                                                      !.advisories = advs,
                                                      !.processedPairs = st.seen,
                                                      !.result = st.out]]
        /\ UNCHANGED << scanVars, callVars >>

\* the query resolves: processAdvisories runs and scan returns its records
ScanResumes ==
    \E i \in ScanIds, advs \in QueryResults :
        /\ scans[i].pc = "awaiting"
        /\ scans' = [scans EXCEPT ![i] =
                        [@ EXCEPT !.pc = "done",
                                  !.advisories = advs,
                                  !.processedPairs = processedPairs(advs, scans[i].packages),
                                  !.result = processAdvisories(advs, scans[i].packages)]]
        /\ UNCHANGED << scanVars, callVars >>

\* the query rejects: the catch clause returns []
ScanFails ==
    \E i \in ScanIds :
        /\ scans[i].pc = "awaiting"
        /\ scans' = [scans EXCEPT ![i] = [@ EXCEPT !.pc = "done", !.thrown = TRUE,
                                                  !.result = <<>>]]
        /\ UNCHANGED << scanVars, callVars >>

\* the caller is done with what an invocation returned and can call again
ScanAgain ==
    \E i \in ScanIds :
        /\ scans[i].pc = "done"
        /\ scans' = [scans EXCEPT ![i] = IdleScan]
        /\ UNCHANGED << scanVars, callVars >>

ScansNext ==
    \/ ScanStart
    \/ ScanResumes
    \/ ScanFails
    \/ ScanAgain

ScansSpec == CallInit /\ [][ScansNext]_vars

(***************************************************************************)
(* Vocabulary of the properties, independent of the code above.            *)
(***************************************************************************)
PairOf(pkg) == << pkg.name, pkg.version >>

DistinctPairs(pkgs) == { PairOf(pkgs[i]) : i \in 1..Len(pkgs) }

\* the entries of pkgs whose (name, version) pair occurs at no earlier position
RECURSIVE FirstOccurrencesFrom(_, _)
FirstOccurrencesFrom(pkgs, i) ==
    IF i > Len(pkgs) THEN <<>>
    ELSE (IF \A j \in 1..(i - 1) : PairOf(pkgs[j]) # PairOf(pkgs[i])
          THEN << pkgs[i] >> ELSE <<>>)
         \o FirstOccurrencesFrom(pkgs, i + 1)

FirstOccurrences(pkgs) == FirstOccurrencesFrom(pkgs, 1)

CeilDiv(n, k) == (n + k - 1) \div k

Last(s) == s[Len(s)]

ScanDone == pc = "done"

\* the advisories a well-behaved registry returns for one bulk query over pkgs
AnswerFor(pkgs) == RegistryAnswer(buildRequestPayload(pkgs).map)

\* what the batches that succeeded returned, in batch order
SuccessfulBatchAnswers ==
    Flatten([ i \in 1..Len(issued) |->
                IF outcomes[i] = "ok" THEN AnswerFor(issued[i]) ELSE <<>> ])

(***************************************************************************)
(* C1. scan never propagates an exception: whenever it has ended it has    *)
(* returned, and when queryVulnerabilities threw (payload building,        *)
(* delivery after retries, JSON decoding, schema validation) it returned   *)
(* the empty list.                                                         *)
(***************************************************************************)
ScanFailsOpen ==
    /\ scanOutcome # "thrown"
    /\ ScanDone => scanOutcome = "returned"
    /\ queryOutcome = "thrown" => ScanDone /\ result = <<>>

\* a scan whose only bulk query got a body that is not JSON
ScanFailsOpenWitness ==
    /\ ScanDone
    /\ queryOutcome = "thrown"
    /\ queryError = "json"
    /\ scanOutcome = "returned"
    /\ result = <<>>

(***************************************************************************)
(* C2. In a batched query (more distinct pairs than the per-request        *)
(* maximum) queryVulnerabilities does not throw, every batch is issued     *)
(* whatever batches fail, and the result is the concatenation, in batch    *)
(* order, of what the successful batches returned.                         *)
(***************************************************************************)
BatchedQueryNeverThrows ==
    (ScanDone /\ Cardinality(DistinctPairs(packages)) > maxPerRequest) =>
        /\ queryOutcome = "returned"
        /\ Len(issued) = CeilDiv(Cardinality(DistinctPairs(packages)), maxPerRequest)
        /\ Len(outcomes) = Len(issued)
        /\ advisories = SuccessfulBatchAnswers

\* C2 for the queries that reach queryInBatches: the same statement
BatchFailuresAreSkipped ==
    (ScanDone /\ batched) =>
        /\ queryOutcome = "returned"
        /\ Len(issued) = CeilDiv(Cardinality(DistinctPairs(packages)), maxPerRequest)
        /\ Len(outcomes) = Len(issued)
        /\ advisories = SuccessfulBatchAnswers

\* a batched query with a failed batch followed by a successful one that found advisories
BatchFailuresAreSkippedWitness ==
    /\ ScanDone
    /\ batched
    /\ Len(outcomes) >= 2
    /\ outcomes[1] # "ok"
    /\ outcomes[2] = "ok"
    /\ advisories # <<>>

(***************************************************************************)
(* C3. In a non-batched query a bulk query that fails (delivery after all  *)
(* retries, undecodable body, neither shape) makes queryVulnerabilities    *)
(* throw that error; it does not return a list instead.                    *)
(***************************************************************************)
SingleQueryFailurePropagates ==
    ( /\ Cardinality(DistinctPairs(packages)) <= maxPerRequest
      /\ outcomes # <<>>
      /\ outcomes[1] # "ok" ) =>
        /\ queryOutcome = "thrown"
        /\ queryError = outcomes[1]
        /\ Len(outcomes) = 1

\* a single query whose delivery failed on every attempt
SingleQueryFailurePropagatesWitness ==
    /\ Cardinality(DistinctPairs(packages)) <= maxPerRequest
    /\ outcomes = << "timeout" >>
    /\ attempts = MaxAttempts
    /\ queryOutcome = "thrown"
    /\ queryError = "timeout"

(***************************************************************************)
(* C4. For N >= 1 distinct pairs and per-request maximum K the scan makes  *)
(* exactly ceil(N/K) bulk queries: the slices are consecutive, hold K      *)
(* pairs each but for the last, and together are the deduplicated list.    *)
(***************************************************************************)
SlicesPartition(pkgs) ==
    /\ Len(issued) = CeilDiv(Cardinality(DistinctPairs(pkgs)), maxPerRequest)
    /\ Flatten(issued) = FirstOccurrences(pkgs)
    /\ \A i \in 1..Len(issued) :
          Len(issued[i]) = IF i < Len(issued) THEN maxPerRequest
                           ELSE Cardinality(DistinctPairs(pkgs)) - maxPerRequest * (i - 1)
    /\ Cardinality(DistinctPairs(pkgs)) <= maxPerRequest => Len(issued) = 1

BatchCountIsCeiling ==
    (ScanDone /\ packages # <<>>) => SlicesPartition(packages)

\* C4 for the scans whose request payload could be built
BatchCountIsCeilingWhenPayloadBuilds ==
    (ScanDone /\ packages # <<>> /\ queryError # "TypeError") => SlicesPartition(packages)

\* three distinct pairs sent two at a time: a full batch and a remainder
BatchCountIsCeilingWitness ==
    /\ ScanDone
    /\ Cardinality(DistinctPairs(packages)) = 3
    /\ maxPerRequest = 2
    /\ Len(issued) = 2
    /\ Len(issued[2]) = 1

(***************************************************************************)
(* C5. When no batch fails, the set of advisories a batched query returns  *)
(* is the set one unbatched query over the same unique pairs returns.      *)
(***************************************************************************)
UnbatchedResult(pkgs) ==
    ParseResponse(ResponseData("direct",
                               buildRequestPayload(deduplicatePackages(pkgs)).map)).list

\* the unbatched query over pkgs throws while building its payload
UnbatchedThrows(pkgs) == buildRequestPayload(deduplicatePackages(pkgs)).threw

BatchedUnionEqualsUnbatched ==
    /\ (ScanDone /\ batched /\ \A i \in 1..Len(outcomes) : outcomes[i] = "ok") =>
          /\ queryOutcome = "returned"
          /\ Range(advisories) = Range(UnbatchedResult(packages))
    \* no result to compare: the unbatched query has none either
    /\ (ScanDone /\ outcomes = <<>> /\ queryOutcome = "thrown") => UnbatchedThrows(packages)

\* two batches that both returned the same advisory: the list has a repeat, the set not
BatchedUnionEqualsUnbatchedWitness ==
    /\ ScanDone
    /\ batched
    /\ \A i \in 1..Len(outcomes) : outcomes[i] = "ok"
    /\ Len(advisories) > Cardinality(Range(advisories))

(***************************************************************************)
(* C6. Batches are issued one at a time: at most one request is in flight, *)
(* and a request in flight belongs to the last batch issued, every earlier *)
(* batch having ended.                                                     *)
(***************************************************************************)
OneRequestAtATime ==
    /\ inFlight <= 1
    /\ Len(issued) <= Len(outcomes) + 1
    /\ inFlight = 1 => Len(issued) = Len(outcomes) + 1
    /\ pc = "query" => inFlight = 0 /\ Len(issued) = Len(outcomes)

\* the second batch is being fetched after the first failed for good
OneRequestAtATimeWitness ==
    /\ batched
    /\ Len(issued) = 2
    /\ outcomes = << "network" >>
    /\ inFlight = 1

(***************************************************************************)
(* C7. A bulk query makes at most MaxAttempts attempts; a failed attempt   *)
(* below the ceiling is followed by another attempt, a failed attempt at   *)
(* the ceiling surfaces its error, and a 2xx attempt ends the retrying.    *)
(***************************************************************************)
RetryIsBounded ==
    [][ /\ attempts' <= MaxAttempts
        /\ (pc = "fetching" /\ pc' # "decoding" /\ attempts < MaxAttempts) =>
              /\ pc' = "backoff"
              /\ outcomes' = outcomes
        /\ pc = "backoff" => pc' = "fetching" /\ attempts' = attempts + 1
        /\ (pc = "fetching" /\ pc' # "decoding" /\ attempts >= MaxAttempts) =>
              /\ Len(outcomes') = Len(outcomes) + 1
              /\ Last(outcomes') \in TransportErrors
        /\ (pc = "fetching" /\ pc' = "decoding") =>
              /\ attempts' = attempts
              /\ inFlight' = 0
        /\ pc = "decoding" => attempts' = attempts
      ]_vars

\* a bulk query that gave up after its last attempt
RetryIsBoundedWitness ==
    /\ attempts = MaxAttempts
    /\ outcomes # <<>>
    /\ Last(outcomes) \in TransportErrors

(***************************************************************************)
(* C8. A schema error is never retried: after a 2xx response the query     *)
(* makes no further attempt, and a body that is not JSON or has neither    *)
(* shape ends the query with that error at once.                           *)
(***************************************************************************)
SchemaErrorNotRetried ==
    [][ pc = "decoding" =>
          /\ pc' \in { "query", "done" }
          /\ attempts' = attempts
          /\ inFlight' = 0
          /\ Len(outcomes') = Len(outcomes) + 1
          /\ body = "not-json" => Last(outcomes') = "json"
          /\ body = "malformed" => Last(outcomes') = "schema"
          /\ body \in { "direct", "wrapped" } => Last(outcomes') = "ok"
      ]_vars

\* a schema error surfaced after the first attempt, with retries left
SchemaErrorNotRetriedWitness ==
    /\ outcomes # <<>>
    /\ Last(outcomes) = "schema"
    /\ attempts = 1
    /\ attempts < MaxAttempts

(***************************************************************************)
(* C9. Deduplication keeps the first occurrence of every distinct          *)
(* (name, version) pair, in order of first occurrence, and nothing else;   *)
(* the requested range does not tell entries apart.                        *)
(***************************************************************************)
DedupKeepsFirstOccurrences ==
    (pc # "ready" /\ packages # <<>>) =>
        /\ uniquePackages = FirstOccurrences(packages)
        /\ Len(uniquePackages) = Cardinality(DistinctPairs(packages))
        /\ \A i, j \in 1..Len(uniquePackages) :
              i # j => PairOf(uniquePackages[i]) # PairOf(uniquePackages[j])

\* the same pair listed twice with different requested ranges, and another
\* version of the same name
DedupKeepsFirstOccurrencesWitness ==
    /\ pc # "ready"
    /\ Len(packages) = 3
    /\ PairOf(packages[1]) = PairOf(packages[2])
    /\ packages[1].requestedRange # packages[2].requestedRange
    /\ packages[3].name = packages[1].name
    /\ uniquePackages = << packages[1], packages[3] >>

(***************************************************************************)
(* C10. Building the grouped payload never fails; its keys are the         *)
(* distinct names, and each name lists each of its versions once.          *)
(***************************************************************************)
GroupsVersionsByName(map, pkgs) ==
    /\ DOMAIN map = { pkgs[i].name : i \in 1..Len(pkgs) }
    /\ \A n \in DOMAIN map :
          /\ Range(map[n]) = { pkgs[i].version : i \in { k \in 1..Len(pkgs) : pkgs[k].name = n } }
          /\ Len(map[n]) = Cardinality(Range(map[n]))

PayloadBuildNeverFails ==
    /\ queryError # "TypeError"
    /\ pc \in { "fetching", "backoff", "decoding" } => GroupsVersionsByName(payload, Last(issued))

\* C10 for the lists without a name that Object.prototype defines
PayloadGroupsWhenNoInheritedName ==
    /\ queryError = "TypeError" =>
          \E i \in 1..Len(packages) : packages[i].name \in ObjectPrototypeKeys
    /\ pc \in { "fetching", "backoff", "decoding" } => GroupsVersionsByName(payload, Last(issued))

\* one name requested at two versions, one of them twice
PayloadGroupsWitness ==
    /\ pc = "fetching"
    /\ Len(Last(issued)) = 2
    /\ Cardinality(DOMAIN payload) = 1
    /\ \E n \in DOMAIN payload : Len(payload[n]) = 2

(***************************************************************************)
(* C11. queryVulnerabilities on the empty list returns the empty list and  *)
(* makes no request: no bulk query, no attempt, nothing in flight.         *)
(***************************************************************************)
EmptyListMakesNoRequest ==
    packages = <<>> =>
        /\ issued = <<>>
        /\ attempts = 0
        /\ inFlight = 0
        /\ pc \in { "ready", "done" }
        /\ ScanDone => /\ queryOutcome = "returned"
                       /\ advisories = <<>>
                       /\ result = <<>>

\* the scan of the empty list has ended
EmptyListMakesNoRequestWitness ==
    /\ packages = <<>>
    /\ ScanDone
    /\ queryOutcome = "returned"
    /\ issued = <<>>

(***************************************************************************)
(* C18. mapSeverityToLevel is total over the five severities: critical and *)
(* high give fatal, moderate, low and info give warn, nothing else.        *)
(***************************************************************************)
SeverityLevelIsTotal ==
    call.fn = "mapSeverityToLevel" =>
        /\ ret.fn = "mapSeverityToLevel"
        /\ ret.value \in { "fatal", "warn" }
        /\ call.severity \in { "critical", "high" } => ret.value = "fatal"
        /\ call.severity \in { "moderate", "low", "info" } => ret.value = "warn"

\* moderate was mapped, to warn
SeverityLevelIsTotalWitness ==
    /\ call.fn = "mapSeverityToLevel"
    /\ call.severity = "moderate"
    /\ ret.value = "warn"

(***************************************************************************)
(* C19. severityToPriority ranks critical 5, high 4, moderate 3, low 2,    *)
(* info 1, and returns 0 for every other label.                            *)
(***************************************************************************)
RankingOf(label) ==
    CASE label = "critical" -> 5
      [] label = "high" -> 4
      [] label = "moderate" -> 3
      [] label = "low" -> 2
      [] label = "info" -> 1
      [] OTHER -> 0

PriorityIsRanking ==
    call.fn = "severityToPriority" =>
        /\ ret.value.type = "number"
        /\ ret.value.value = RankingOf(call.severity)

\* C19 for the labels Object.prototype does not define
PriorityIsRankingWhenNotInherited ==
    (call.fn = "severityToPriority" /\ call.severity \notin ObjectPrototypeKeys) =>
        /\ ret.value.type = "number"
        /\ ret.value.value = RankingOf(call.severity)

\* an unknown label got priority 0
PriorityIsRankingWitness ==
    /\ call.fn = "severityToPriority"
    /\ call.severity = "unknown"
    /\ ret.value = [type |-> "number", value |-> 0]

(***************************************************************************)
(* C20. The matcher follows semantic-version range satisfaction:           *)
(* comparators of one clause are combined with AND, clauses separated by   *)
(* || with OR; 4.17.19 is affected by <4.17.20 and 4.17.21 is not, 3.3.6   *)
(* is affected by =3.3.6, 0.21.0 by >=0.8.1 <0.21.1, every version by *.   *)
(***************************************************************************)
\* the ranges that parse
ValidSimpleRanges == SimpleRanges \ { "invalid-range" }

MatcherExamples ==
    { << "4.17.19", "<4.17.20", TRUE >>,
      << "4.17.21", "<4.17.20", FALSE >>,
      << "4.17.20", "<4.17.20", FALSE >>,
      << "10.0.0", "<4.17.20", FALSE >>,
      << "3.3.6", "=3.3.6", TRUE >>,
      << "4.17.19", "=3.3.6", FALSE >>,
      << "0.21.0", ">=0.8.1 <0.21.1", TRUE >>,
      << "0.8.0", ">=0.8.1 <0.21.1", FALSE >>,
      << "1.0.0", ">=0.8.1 <0.21.1", FALSE >> }

SubjectWhenPresent(a) == IF a.name # Undefined THEN a.name ELSE a.module_name

\* the subject of an advisory: its name when the field is present and not empty
SubjectWhenNonEmpty(a) ==
    IF a.name \notin { Undefined, "" } THEN a.name ELSE a.module_name

\* the subject under one of the two readings
Subject(a, emptyIsAbsent) ==
    IF emptyIsAbsent THEN SubjectWhenNonEmpty(a) ELSE SubjectWhenPresent(a)

IndexPairs(advs, pkgs) == (1..Len(advs)) \X (1..Len(pkgs))

\* advisory p[1] is about package p[2] and its range holds the version
Matches(advs, pkgs, p, emptyIsAbsent) ==
    /\ pkgs[p[2]].name = Subject(advs[p[1]], emptyIsAbsent)
    /\ isVersionAffected(pkgs[p[2]].version, advs[p[1]].vulnerable_versions)

SameTriple(advs, pkgs, p, q) ==
    /\ advs[p[1]].id = advs[q[1]].id
    /\ pkgs[p[2]].name = pkgs[q[2]].name
    /\ pkgs[p[2]].version = pkgs[q[2]].version

\* advisory-major, package-minor
LexLess(p, q) == p[1] < q[1] \/ (p[1] = q[1] /\ p[2] < q[2])

\* the matches that are the first of their triple
FirstMatches(advs, pkgs) ==
    { p \in IndexPairs(advs, pkgs) :
        /\ Matches(advs, pkgs, p, TRUE)
        /\ ~\E q \in IndexPairs(advs, pkgs) :
              /\ LexLess(q, p)
              /\ Matches(advs, pkgs, q, TRUE)
              /\ SameTriple(advs, pkgs, p, q) }

\* the (advisory id, package name) pairs that match under a notion of subject
Attributed(advs, pkgs, emptyIsAbsent) ==
    { << advs[p[1]].id, pkgs[p[2]].name >> :
        p \in { q \in IndexPairs(advs, pkgs) : Matches(advs, pkgs, q, emptyIsAbsent) } }

OutputPairs(out) == { << out[k].id, out[k].package >> : k \in 1..Len(out) }

\* the versions of package n that an advisory with id i about n affects
AffectedVersions(advs, pkgs, i, n) ==
    { pkgs[p[2]].version :
        p \in { q \in IndexPairs(advs, pkgs) :
                  /\ advs[q[1]].id = i
                  /\ pkgs[q[2]].name = n
                  /\ Matches(advs, pkgs, q, TRUE) } }

RecordsFor(out, i, n) == { k \in 1..Len(out) : out[k].id = i /\ out[k].package = n }

Unparsable(range) == ~RangeIsValid(ParseRange(range))

(***************************************************************************)
(* C14. One processAdvisories run produces at most one record per distinct *)
(* (advisory id, package name, package version) triple, however often the  *)
(* package version or the advisory is repeated; two affected versions of   *)
(* one package give two records. The records of an id and a name are as    *)
(* many as the distinct affected versions of that name.                    *)
(***************************************************************************)
OneRecordPerTriple ==
    call.fn = "processAdvisories" =>
        \A a \in Range(call.advisories), pkg \in Range(call.packages) :
            Cardinality(RecordsFor(ret.value, a.id, pkg.name))
                = Cardinality(AffectedVersions(call.advisories, call.packages,
                                               a.id, pkg.name))

\* a repeated advisory and a repeated package version next to another version
OneRecordPerTripleWitness ==
    /\ call.fn = "processAdvisories"
    /\ Len(call.advisories) = 2
    /\ call.advisories[1] = call.advisories[2]
    /\ Len(call.packages) = 3
    /\ call.packages[1] = call.packages[2]
    /\ call.packages[3].name = call.packages[1].name
    /\ call.packages[3].version # call.packages[1].version
    /\ Len(ret.value) = 2

(***************************************************************************)
(* C15. The output is ordered advisory-major, package-minor: the records   *)
(* of an earlier advisory precede those of a later one, and the records of *)
(* one advisory follow the order of the packages.                          *)
(***************************************************************************)
AdvisoryMajorOrder ==
    call.fn = "processAdvisories" =>
        LET P == FirstMatches(call.advisories, call.packages)
        IN  /\ Len(ret.value) = Cardinality(P)
            /\ \A p \in P :
                  LET k == Cardinality({ q \in P : LexLess(q, p) }) + 1
                  IN  /\ ret.value[k].id = call.advisories[p[1]].id
                      /\ ret.value[k].package = call.packages[p[2]].name

\* two advisories with two records each
AdvisoryMajorOrderWitness ==
    /\ call.fn = "processAdvisories"
    /\ Len(ret.value) = 4
    /\ ret.value[1].id = ret.value[2].id
    /\ ret.value[3].id = ret.value[4].id
    /\ ret.value[2].id # ret.value[3].id

(***************************************************************************)
(* C16. The subject package of an advisory is its name when present,       *)
(* otherwise its module_name; an advisory with neither gives no record and *)
(* does not stop the advisories after it.                                  *)
(***************************************************************************)
SubjectIsNameWhenPresent ==
    call.fn = "processAdvisories" =>
        OutputPairs(ret.value)
            = Attributed(call.advisories, call.packages, FALSE)

\* C16 with an empty name counted as absent
SubjectIsNameWhenNonEmpty ==
    call.fn = "processAdvisories" =>
        OutputPairs(ret.value)
            = Attributed(call.advisories, call.packages, TRUE)

\* an advisory without subject, then one attributed by module_name
SubjectIsNameWhenNonEmptyWitness ==
    /\ call.fn = "processAdvisories"
    /\ Len(call.advisories) = 2
    /\ call.advisories[1].name = Undefined
    /\ call.advisories[1].module_name = Undefined
    /\ call.advisories[2].name = Undefined
    /\ call.advisories[2].module_name = "p"
    /\ OutputPairs(ret.value) = { << call.advisories[2].id, "p" >> }

(***************************************************************************)
(* C17. A vulnerable range that cannot be parsed means not affected: the   *)
(* matcher returns false, the advisory gives no record, and the output is  *)
(* the one of the input without the malformed advisories.                  *)
(***************************************************************************)
MalformedRangeIsNotAffected ==
    /\ (call.fn = "isVersionAffected" /\ Unparsable(call.range)) => ret.value = FALSE
    /\ call.fn = "processAdvisories" =>
          /\ \A k \in 1..Len(ret.value) :
                \A a \in Range(call.advisories) :
                    Unparsable(a.vulnerable_versions) => ret.value[k].id # a.id
          /\ ret.value
                = processAdvisories(
                      SelectSeq(call.advisories,
                                LAMBDA a : ~Unparsable(a.vulnerable_versions)),
                      call.packages)

\* a malformed advisory before one that matches
MalformedRangeIsNotAffectedWitness ==
    /\ call.fn = "processAdvisories"
    /\ Len(call.advisories) = 2
    /\ Unparsable(call.advisories[1].vulnerable_versions)
    /\ call.advisories[1].name = "p"
    /\ ~Unparsable(call.advisories[2].vulnerable_versions)
    /\ \E j \in 1..Len(call.packages) : call.packages[j].name = "p"
    /\ Len(ret.value) > 0

(***************************************************************************)
(* Vocabulary of the schema properties.                                    *)
(***************************************************************************)
\* value has the key, with a value of one of the types
HasField(value, key, types) ==
    \E i \in 1..Len(value.keys) : value.keys[i] = key /\ value.vals[i].t \in types

RequiredFields == { "id", "title", "severity", "vulnerable_versions", "url" }

\* the fields NpmAdvisorySchema declares
DeclaredFields ==
    RequiredFields \cup
        { "name", "module_name", "patched_versions", "overview", "recommendation",
          "references", "access", "cwe", "cves", "cvss", "findings", "created",
          "updated", "deleted", "github_advisory_id" }

RequiredFieldsValid(value) ==
    /\ value.t = "object"
    /\ HasField(value, "id", { "string", "number" })
    /\ HasField(value, "title", { "string" })
    /\ HasField(value, "severity", { "string" })
    /\ \E i \in 1..Len(value.keys) :
          /\ value.keys[i] = "severity"
          /\ value.vals[i].s \in { "critical", "high", "moderate", "low", "info" }
    /\ HasField(value, "vulnerable_versions", { "string" })
    /\ HasField(value, "url", { "string" })

\* no declared field besides the required ones
NoOptionalField(value) == Range(value.keys) \cap (DeclaredFields \ RequiredFields) = {}

\* a mapping with a record the advisory schema rejects
HasRejectedRecord(mapping) ==
    /\ mapping.t = "object"
    /\ \E i \in 1..Len(mapping.vals) : ~NpmAdvisorySchema(mapping.vals[i])

IsAdvisoryMapping(value) ==
    /\ value.t = "object"
    /\ \A i \in 1..Len(value.vals) : NpmAdvisorySchema(value.vals[i])

(***************************************************************************)
(* C12. Decoding tries shape (a), a mapping identifier -> advisory, first  *)
(* and returns its values; only when (a) fails it tries shape (b) and      *)
(* returns the values of advisories, whatever metadata is; when both fail  *)
(* there is a schema error and no list.                                    *)
(***************************************************************************)
DecodeTriesShapesInOrder ==
    call.fn = "parseResponse" =>
        LET data == call.data
            wrapped == Get(call.data, "advisories")
        IN  /\ IsAdvisoryMapping(data) =>
                  ret.value = [ok |-> TRUE, list |-> AdvisoryValues(data)]
            /\ (~IsAdvisoryMapping(data) /\ IsAdvisoryMapping(wrapped)) =>
                  ret.value = [ok |-> TRUE, list |-> AdvisoryValues(wrapped)]
            /\ (~IsAdvisoryMapping(data) /\ ~IsAdvisoryMapping(wrapped)) =>
                  ret.value = [ok |-> FALSE, list |-> <<>>]

\* shape (b) with two advisories and a metadata that is not an object
DecodeTriesShapesInOrderWitness ==
    /\ call.fn = "parseResponse"
    /\ ~IsAdvisoryMapping(call.data)
    /\ Get(call.data, "metadata") = JNull
    /\ ret.value.ok
    /\ Len(ret.value.list) = 2

(***************************************************************************)
(* C13. An advisory record is rejected whenever one of id, title,          *)
(* severity, vulnerable_versions, url is missing or of the wrong type; it  *)
(* is accepted with the five valid and nothing else, and with unknown      *)
(* fields added. A mapping with a rejected record is rejected.             *)
(***************************************************************************)
AdvisoryRecordValidation ==
    /\ call.fn = "NpmAdvisorySchema" =>
          /\ ~RequiredFieldsValid(call.value) => ~ret.value
          /\ (RequiredFieldsValid(call.value) /\ NoOptionalField(call.value)) => ret.value
    /\ (/\ call.fn = "parseResponse"
        /\ HasRejectedRecord(call.data)
        /\ \/ Get(call.data, "advisories") = JUndefined
           \/ HasRejectedRecord(Get(call.data, "advisories")))
          => ~ret.value.ok

\* the five required fields and two unknown ones
AdvisoryRecordValidationWitness ==
    /\ call.fn = "NpmAdvisorySchema"
    /\ RequiredFieldsValid(call.value)
    /\ Get(call.value, "id").t = "number"
    /\ Get(call.value, "extra") # JUndefined
    /\ ret.value

(***************************************************************************)
(* Vocabulary of the record properties.                                    *)
(***************************************************************************)
CharAt(text, i) == SubSeq(text, i, i)

\* position i of text holds no white space
Inked(text, i) == CharAt(text, i) \notin { " ", "\t", "\n" }

\* the text has no character other than white space
Blank(text) == \A i \in 1..Len(text) : ~Inked(text, i)

\* text without the white space around it
Trimmed(text) ==
    IF Blank(text) THEN ""
    ELSE SubSeq(text,
                CHOOSE i \in 1..Len(text) :
                    Inked(text, i) /\ \A j \in 1..(i - 1) : ~Inked(text, j),
                CHOOSE i \in 1..Len(text) :
                    Inked(text, i) /\ \A j \in (i + 1)..Len(text) : ~Inked(text, j))

\* the field is present and not blank
Usable(text) == text # Undefined /\ ~Blank(text)

\* the text the description of the advisory is taken from, "" when there is none
DescriptionSource(a) ==
    IF Usable(a.overview) THEN Trimmed(a.overview)
    ELSE IF Usable(a.recommendation) THEN Trimmed(a.recommendation)
    ELSE ""

\* the sentence ends of text within the maximum
SentenceEndsWithin(text) ==
    { i \in 1..Min(Len(text), MAX_DESCRIPTION_LENGTH) : CharAt(text, i) \in { ".", "!", "?" } }

HardTruncated(text) == SubSeq(text, 1, MAX_DESCRIPTION_LENGTH - 3) \o "..."

\* d is text, or a prefix of text, possibly followed by an ellipsis
TakenFrom(d, text) ==
    \/ d = text
    \/ Len(d) <= Len(text) /\ d = SubSeq(text, 1, Len(d))
    \/ Len(d) >= 3 /\ Len(d) - 3 <= Len(text) /\ d = SubSeq(text, 1, Len(d) - 3) \o "..."

LevelOf(severity) == IF severity \in { "critical", "high" } THEN "fatal" ELSE "warn"

(***************************************************************************)
(* C21. The description is taken from the trimmed overview when that is    *)
(* not empty, otherwise from the trimmed recommendation when that is not   *)
(* empty, otherwise it is null.                                            *)
(***************************************************************************)
DescriptionPriority ==
    call.fn = "createBunAdvisory" =>
        LET a == call.advisory
            d == ret.value.description
        IN  /\ Usable(a.overview) =>
                  /\ d # Null
                  /\ TakenFrom(d, Trimmed(a.overview))
                  /\ Len(Trimmed(a.overview)) <= MAX_DESCRIPTION_LENGTH
                        => d = Trimmed(a.overview)
            /\ (~Usable(a.overview) /\ Usable(a.recommendation)) =>
                  /\ d # Null
                  /\ TakenFrom(d, Trimmed(a.recommendation))
                  /\ Len(Trimmed(a.recommendation)) <= MAX_DESCRIPTION_LENGTH
                        => d = Trimmed(a.recommendation)
            /\ (~Usable(a.overview) /\ ~Usable(a.recommendation)) => d = Null

\* a blank overview, and a recommendation with white space around it
DescriptionPriorityWitness ==
    /\ call.fn = "createBunAdvisory"
    /\ call.advisory.overview = " \n "
    /\ call.advisory.recommendation = "  Short text. More of it!  "
    /\ ret.value.description = "Short text. More of it!"

(***************************************************************************)
(* C22. A description is never longer than the maximum (200): a text at or *)
(* under it is used as it is, a longer one without sentence end within the *)
(* maximum becomes its first 197 characters and three dots.                *)
(***************************************************************************)
DescriptionWithinMaximum ==
    call.fn = "createBunAdvisory" =>
        LET text == DescriptionSource(call.advisory)
            d == ret.value.description
        IN  d # Null =>
              /\ Len(d) <= MAX_DESCRIPTION_LENGTH
              /\ Len(text) <= MAX_DESCRIPTION_LENGTH => d = text
              /\ (Len(text) > MAX_DESCRIPTION_LENGTH /\ SentenceEndsWithin(text) = {})
                    => d = HardTruncated(text)

\* a recommendation of 300 characters without sentence end
DescriptionWithinMaximumWitness ==
    /\ call.fn = "createBunAdvisory"
    /\ call.advisory.overview = Undefined
    /\ call.advisory.recommendation # Undefined
    /\ Len(call.advisory.recommendation) = MAX_DESCRIPTION_LENGTH + 100
    /\ Len(ret.value.description) = MAX_DESCRIPTION_LENGTH

(***************************************************************************)
(* C23. A record is built from one advisory and one matched package: id is *)
(* the string form of the advisory id, message the title, level the level  *)
(* of the severity (fatal or warn), package the package name, url the url. *)
(***************************************************************************)
RecordBuiltFromAdvisory ==
    call.fn = "createBunAdvisory" =>
        /\ ret.value.id = call.advisory.id
        /\ ret.value.message = call.advisory.title
        /\ ret.value.level = LevelOf(call.advisory.severity)
        /\ ret.value.package = call.pkg.name
        /\ ret.value.url = call.advisory.url

\* C23 with the message of an advisory whose title is empty
RecordBuiltFromAdvisoryOrId ==
    call.fn = "createBunAdvisory" =>
        /\ ret.value.id = call.advisory.id
        /\ ret.value.message = IF call.advisory.title # "" THEN call.advisory.title
                               ELSE "Security advisory " \o call.advisory.id
        /\ ret.value.level = LevelOf(call.advisory.severity)
        /\ ret.value.level \in { "fatal", "warn" }
        /\ ret.value.package = call.pkg.name
        /\ ret.value.url = call.advisory.url

\* a numeric id and a title
RecordBuiltFromAdvisoryOrIdWitness ==
    /\ call.fn = "createBunAdvisory"
    /\ call.advisory.idIsNumber
    /\ call.advisory.title # ""
    /\ call.pkg.name = "p"
    /\ ret.value.id = "1065"
    /\ ret.value.level = "fatal"

(***************************************************************************)
(* C26. An overview over the maximum is cut after its first sentence end   *)
(* (. ! ?) when that prefix fits the maximum, and hard-truncated only when *)
(* it does not; a recommendation is never cut at a sentence end.           *)
(***************************************************************************)
OverviewCutAtFirstSentence ==
    call.fn = "createBunAdvisory" =>
        LET a == call.advisory
            text == DescriptionSource(call.advisory)
            ends == SentenceEndsWithin(text)
            d == ret.value.description
        IN  Len(text) > MAX_DESCRIPTION_LENGTH =>
              /\ (Usable(a.overview) /\ ends # {}) =>
                    d = SubSeq(text, 1, CHOOSE i \in ends : \A j \in ends : i <= j)
              /\ (Usable(a.overview) /\ ends = {}) => d = HardTruncated(text)
              /\ ~Usable(a.overview) => d = HardTruncated(text)

\* a long overview whose first sentence ends at the maximum
OverviewCutAtFirstSentenceWitness ==
    /\ call.fn = "createBunAdvisory"
    /\ Usable(call.advisory.overview)
    /\ Len(call.advisory.overview) > MAX_DESCRIPTION_LENGTH
    /\ Len(ret.value.description) = MAX_DESCRIPTION_LENGTH
    /\ CharAt(ret.value.description, MAX_DESCRIPTION_LENGTH) = "!"

(***************************************************************************)
(* C27. The level depends on the severity label only: advisories that      *)
(* differ in their score alone get the same level, and moderate, low or    *)
(* info with a score of 7.0 or more is still warn.                         *)
(***************************************************************************)
LevelIgnoresScore ==
    call.fn = "createBunAdvisory" =>
        /\ \A tenths \in 0..100 :
              createBunAdvisory([call.advisory EXCEPT !.cvss = Cvss(tenths)],
                                call.pkg).level = ret.value.level
        /\ createBunAdvisory([call.advisory EXCEPT !.cvss = NoCvss], call.pkg).level
              = ret.value.level
        /\ call.advisory.severity \in { "moderate", "low", "info" } => ret.value.level = "warn"

\* a moderate advisory with a score of 9.8
LevelIgnoresScoreWitness ==
    /\ call.fn = "createBunAdvisory"
    /\ call.advisory.severity = "moderate"
    /\ call.advisory.cvss = Cvss(98)
    /\ isCvssScoreFatal(call.advisory.cvss.score)
    /\ ret.value.level = "warn"

(***************************************************************************)
(* Vocabulary of the configuration property.                               *)
(***************************************************************************)
\* the decimal literals and their values, in hundredths
NumberLiterals ==
    [ s \in { "42", "-42", "3.14", " 7 ", "1" } |->
        CASE s = "42" -> 4200
          [] s = "-42" -> -4200
          [] s = "3.14" -> 314
          [] s = " 7 " -> 700
          [] OTHER -> 100 ]

\* the spellings of the booleans
BooleanLiterals ==
    [ s \in { "true", "TRUE", "True", "false", "FALSE" } |-> s \in { "true", "TRUE", "True" } ]

\* the override can be parsed for the type of the default
Parsable(envValue, defaultValue) ==
    CASE defaultValue.t = "number" -> envValue \in DOMAIN NumberLiterals
      [] defaultValue.t = "boolean" -> envValue \in DOMAIN BooleanLiterals
      [] OTHER -> TRUE

ParsedOverride(envValue, defaultValue) ==
    CASE defaultValue.t = "number" -> NumberValue(NumberLiterals[envValue])
      [] defaultValue.t = "boolean" -> BooleanValue(BooleanLiterals[envValue])
      [] OTHER -> StringValue(envValue)

(***************************************************************************)
(* C24. getConfig returns the default when the variable is unset or empty  *)
(* and when the override cannot be parsed for the type of the default or   *)
(* the custom parser throws; otherwise it returns the parsed override.     *)
(***************************************************************************)
ConfigFallsBackToDefault ==
    call.fn = "getConfig" =>
        /\ call.envValue \in { Undefined, "" } => ret.value = call.defaultValue
        /\ call.parser = "throws" => ret.value = call.defaultValue
        /\ (call.parser = "double" /\ call.envValue = "42")
              => ret.value = NumberValue(8400)
        /\ (call.parser = "none" /\ call.envValue \notin { Undefined, "" }) =>
              ret.value = IF Parsable(call.envValue, call.defaultValue)
                          THEN ParsedOverride(call.envValue, call.defaultValue)
                          ELSE call.defaultValue

\* C24 but for the overrides that are blank, or no boolean for a boolean default
ConfigFallsBackWhenNotBooleanOrBlank ==
    (/\ call.fn = "getConfig"
     /\ ~(call.defaultValue.t = "boolean" /\ ~Parsable(call.envValue, call.defaultValue))
     /\ ~(call.defaultValue.t = "number" /\ call.envValue = " "))
        => /\ call.envValue \in { Undefined, "" } => ret.value = call.defaultValue
           /\ call.parser = "throws" => ret.value = call.defaultValue
           /\ (call.parser = "double" /\ call.envValue = "42")
                 => ret.value = NumberValue(8400)
           /\ (call.parser = "none" /\ call.envValue \notin { Undefined, "" }) =>
                 ret.value = IF Parsable(call.envValue, call.defaultValue)
                             THEN ParsedOverride(call.envValue, call.defaultValue)
                             ELSE call.defaultValue

\* a numeric default kept against an override that is no number
ConfigFallsBackWitness ==
    /\ call.fn = "getConfig"
    /\ call.envValue = "not-a-number"
    /\ call.defaultValue = NumberValue(1000)
    /\ call.parser = "none"
    /\ ret.value = NumberValue(1000)

(***************************************************************************)
(* C25. processAdvisories gives a record for an advisory and a package     *)
(* exactly when the resolved subject of the advisory is the name of the    *)
(* package and the range of the advisory holds the version of the package: *)
(* every record is one of a matching combination, every matching           *)
(* combination has a record of its advisory id and package name, the       *)
(* records are as many as the distinct matching (id, name, version)        *)
(* triples, and there is none when either list is empty.                   *)
(***************************************************************************)
MatchingTriples(advs, pkgs) ==
    { << advs[p[1]].id, pkgs[p[2]].name, pkgs[p[2]].version >> :
        p \in { q \in IndexPairs(advs, pkgs) :
                  /\ pkgs[q[2]].name = AdvisoryPackageName(advs[q[1]])
                  /\ isVersionAffected(pkgs[q[2]].version,
                                       advs[q[1]].vulnerable_versions) } }

RecordsAreExactlyTheMatches ==
    call.fn = "processAdvisories" =>
        LET T == MatchingTriples(call.advisories, call.packages)
        IN  /\ \A k \in 1..Len(ret.value) :
                  \E t \in T : ret.value[k].id = t[1] /\ ret.value[k].package = t[2]
            /\ \A t \in T :
                  \E k \in 1..Len(ret.value) :
                      ret.value[k].id = t[1] /\ ret.value[k].package = t[2]
            /\ Len(ret.value) = Cardinality(T)
            /\ (call.advisories = <<>> \/ call.packages = <<>>) => ret.value = <<>>

\* one advisory matches two of three packages, the other none
RecordsAreExactlyTheMatchesWitness ==
    /\ call.fn = "processAdvisories"
    /\ Len(call.advisories) = 2
    /\ Len(call.packages) = 3
    /\ Cardinality(Range(call.packages)) = 3
    /\ call.advisories[1].name = "p"
    /\ call.advisories[1].vulnerable_versions = "*"
    /\ call.advisories[2].name = Undefined
    /\ call.advisories[2].module_name = Undefined
    /\ Len(ret.value) = 2

(***************************************************************************)
(* C28. The result of a whole scan has at most one record per (advisory    *)
(* id, package name, package version) triple, in batched mode too: the     *)
(* processor is given the package list as the caller passed it and the     *)
(* concatenated batch results, and an advisory returned by several batches *)
(* or a package version listed several times gives each triple once.       *)
(***************************************************************************)
ScanResultOneRecordPerTriple ==
    (pc = "done" /\ scanOutcome = "returned") =>
        /\ queryOutcome = "returned" => result = processAdvisories(advisories, packages)
        /\ \A k \in 1..Len(result) :
              Cardinality(RecordsFor(result, result[k].id, result[k].package))
                  <= Cardinality(AffectedVersions(advisories, packages,
                                                  result[k].id, result[k].package))

\* two batches return one advisory, the caller lists one package version twice
ScanResultOneRecordPerTripleWitness ==
    /\ pc = "done"
    /\ scanOutcome = "returned"
    /\ batched
    /\ \E i, j \in 1..Len(advisories) : i # j /\ advisories[i] = advisories[j]
    /\ \E i, j \in 1..Len(packages) :
          /\ i # j
          /\ packages[i].name = packages[j].name
          /\ packages[i].version = packages[j].version
    /\ Len(result) = 3

(***************************************************************************)
(* C29. No state crosses scan invocations: in any sequence or interleaving *)
(* of scans, what a scan returns is determined by its own package list and *)
(* the advisories its query returned; the processedPairs of one run never  *)
(* suppress a record of another run, so two scans with the same packages   *)
(* and the same registry responses return the same records.                *)
(***************************************************************************)
Returned(i) == scans[i].pc = "done" /\ ~scans[i].thrown

ScansAreIndependent ==
    /\ \A i \in ScanIds :
          Returned(i) =>
              /\ scans[i].result
                    = processAdvisories(scans[i].advisories, scans[i].packages)
              /\ Len(scans[i].result)
                    = Cardinality(MatchingTriples(scans[i].advisories,
                                                  scans[i].packages))
    /\ \A i, j \in ScanIds :
          (/\ Returned(i)
           /\ Returned(j)
           /\ scans[i].packages = scans[j].packages
           /\ scans[i].advisories = scans[j].advisories)
              => scans[i].result = scans[j].result

\* two scans of the same packages got the same advisories and have records
ScansAreIndependentWitness ==
    \E i, j \in ScanIds :
        /\ i # j
        /\ Returned(i)
        /\ Returned(j)
        /\ scans[i].packages = scans[j].packages
        /\ scans[i].advisories = scans[j].advisories
        /\ scans[i].processedPairs # {}
        /\ Len(scans[i].result) > 1
        /\ scans[i].result = scans[j].result

(***************************************************************************)
(* C30. Every scan eventually returns an advisory list, possibly empty,    *)
(* provided each request attempt eventually succeeds, fails or times out:  *)
(* the batches are finitely many, a batch makes a bounded number of        *)
(* attempts, and no failure path loops or waits forever.                   *)
(***************************************************************************)
ScanEventuallyReturns == <>(pc = "done" /\ scanOutcome = "returned")

\* a batched scan has returned after a batch used up its attempts
ScanEventuallyReturnsWitness ==
    /\ pc = "done"
    /\ scanOutcome = "returned"
    /\ batched
    /\ Len(outcomes) > 1
    /\ \E k \in 1..Len(outcomes) : outcomes[k] # "ok"
    /\ \E k \in 1..Len(outcomes) : outcomes[k] = "ok"

====
